---------------------------- MODULE Spec2Model ----------------------------
(***************************************************************************)
(* A model of the template engine of Zeppelin (templateFormatter): the     *)
(* character-level parser, the bounded template cache, the asynchronous    *)
(* evaluator and the safe-value container, as they are written in          *)
(* src/backend/src/plugins/ModActions/events/PostAlertOnMemberJoinEvt.ts.  *)
(*                                                                         *)
(* Strings are sequences of one-character strings.  Values of the          *)
(* template language are records tagged by a field "kind".                 *)
(***************************************************************************)
EXTENDS Integers, Sequences, FiniteSets, TLC

(***************************************************************************)
(* Strings                                                                 *)
(***************************************************************************)

Digits == <<"0", "1", "2", "3", "4", "5", "6", "7", "8", "9">>

IsDigit(c) == \E d \in 1..10 : Digits[d] = c

DigitValue(c) == (CHOOSE d \in 1..10 : Digits[d] = c) - 1

\* /\s/.test(char): the whitespace characters of the model's alphabets.
IsWhitespace(c) == c \in {" ", "\t", "\n"}

RECURSIVE Flatten(_)
Flatten(ss) == IF ss = <<>> THEN <<>> ELSE Head(ss) \o Flatten(Tail(ss))

RECURSIVE TrimRight(_)
TrimRight(s) ==
  IF s # <<>> /\ IsWhitespace(s[Len(s)]) THEN TrimRight(SubSeq(s, 1, Len(s) - 1)) ELSE s

RECURSIVE DigitsValue(_)
DigitsValue(s) ==
  IF s = <<>> THEN 0 ELSE 10 * DigitsValue(SubSeq(s, 1, Len(s) - 1)) + DigitValue(s[Len(s)])

AllDigits(s) == s # <<>> /\ \A k \in 1..Len(s) : IsDigit(s[k])

(***************************************************************************)
(* The numbers of JavaScript that a text can stand for: an integer, an     *)
(* infinity (n is its sign) or NaN.  The texts are those dumpArg can meet  *)
(* over the alphabets of the model: a numeric argument starts with a digit *)
(* or "-" and then takes every character up to the next "," or ")".  The  *)
(* alphabets have no ".", "e", "x" or "+", so a numeric literal is an      *)
(* optionally signed run of decimal digits or an optionally signed         *)
(* "Infinity".                                                             *)
(***************************************************************************)
Finite(n) == [class |-> "finite", n |-> n]
Infinite(sign) == [class |-> "infinite", n |-> sign]
NaN == [class |-> "nan", n |-> 0]

InfinityText == <<"I", "n", "f", "i", "n", "i", "t", "y">>

RECURSIVE TrimLeft(_)
TrimLeft(s) == IF s # <<>> /\ IsWhitespace(s[1]) THEN TrimLeft(Tail(s)) ELSE s

StripSign(s) == IF s # <<>> /\ s[1] = "-" THEN Tail(s) ELSE s

Signed(s, n) == IF s # <<>> /\ s[1] = "-" THEN 0 - n ELSE n

\* Number(text): whitespace is trimmed on both sides, the empty text is 0,
\* and the whole of what is left must be a numeric literal.
ToNumber(s) ==
  LET t == TrimLeft(TrimRight(s))
      u == StripSign(t)
  IN  IF t = <<>> THEN Finite(0)
      ELSE IF AllDigits(u) THEN Finite(Signed(t, DigitsValue(u)))
      ELSE IF u = InfinityText THEN Infinite(Signed(t, 1))
      ELSE NaN

\* isNaN(text): the text is converted by Number().
isNaN(s) == ToNumber(s).class = "nan"

RECURSIVE DigitPrefix(_)
\* The longest run of digits at the start of the text.
DigitPrefix(s) == IF s # <<>> /\ IsDigit(s[1]) THEN <<s[1]>> \o DigitPrefix(Tail(s)) ELSE <<>>

IsPrefixOf(s, t) == Len(s) <= Len(t) /\ SubSeq(t, 1, Len(s)) = s

\* parseFloat(text): leading whitespace is skipped and the longest prefix
\* that is a numeric literal is converted; NaN when there is none.
parseFloat(s) ==
  LET t == TrimLeft(s)
      u == StripSign(t)
  IN  IF IsPrefixOf(InfinityText, u) THEN Infinite(Signed(t, 1))
      ELSE IF DigitPrefix(u) = <<>> THEN NaN
      ELSE Finite(Signed(t, DigitsValue(DigitPrefix(u))))

(***************************************************************************)
(* The parser: parseTemplate                                               *)
(***************************************************************************)

TextPart(s) == [kind |-> "text", text |-> s]
NumArg(n) == [kind |-> "num", num |-> n]
\* The number x as an argument: an infinity and NaN keep their class.
NumberArg(x) ==
  IF x.class = "finite" THEN NumArg(x.n) ELSE [kind |-> "num", num |-> x.n, class |-> x.class]

\* newTemplateVar(): _parent is the node below it on the stack of open nodes.
newTemplateVar ==
  [identifier |-> <<>>, args |-> <<>>,
   inArg |-> FALSE, currentArg |-> <<>>, currentArgType |-> "null", inQuote |-> FALSE]

\* A node that has left the chain of open nodes and is held in the args of
\* its parent, in rootVar or in result: the object keeps its _state and its
\* _parent ("null" for a root, "node" for a nested node) until the clean-up.
Held(v, parent) ==
  [kind |-> "var", identifier |-> v.identifier, args |-> v.args,
   _state |-> [currentArg |-> v.currentArg, currentArgType |-> v.currentArgType,
               inArg |-> v.inArg, inQuote |-> v.inQuote],
   _parent |-> parent]

\* delete item._state; delete item._parent
Stripped(item, args) == [kind |-> "var", identifier |-> item.identifier, args |-> args]

RECURSIVE cleanUpShallowFrom(_, _)
cleanUpShallowFrom(arr, k) ==
  IF k > Len(arr) THEN <<>>
  ELSE <<IF arr[k].kind = "var" THEN Stripped(arr[k], arr[k].args) ELSE arr[k]>>
         \o cleanUpShallowFrom(arr, k + 1)

\* The clean-up of the items of arr alone: the args of a node are left as they are.
cleanUpParseResultShallow(arr) == cleanUpShallowFrom(arr, 1)

RECURSIVE cleanUpParseResult(_)
RECURSIVE cleanUpFrom(_, _)
\* arr.forEach from the k-th item on: an object loses _state and _parent,
\* and its args, when it has any, are cleaned in turn.
cleanUpFrom(arr, k) ==
  IF k > Len(arr) THEN <<>>
  ELSE <<IF arr[k].kind = "var"
         THEN Stripped(arr[k], IF arr[k].args # <<>> THEN cleanUpParseResult(arr[k].args)
                               ELSE arr[k].args)
         ELSE arr[k]>>
         \o cleanUpFrom(arr, k + 1)

\* cleanUpParseResult(arr)
cleanUpParseResult(arr) == cleanUpFrom(arr, 1)

NoError == [msg |-> "", at |-> -1]
\* The position counted from 1.
UnexpectedCharFromOne(i) == [msg |-> "Unexpected char", at |-> i + 1]

UnexpectedChar(i) == [msg |-> "Unexpected char", at |-> i]
InvalidNumeric == [msg |-> "Invalid numeric argument", at |-> -1]
UnclosedFunction == [msg |-> "Unclosed function!", at |-> -1]
Unterminated == [msg |-> "Unterminated injected variable!", at |-> -1]

(***************************************************************************)
(* The parser's local variables.  open is the chain of nodes from rootVar  *)
(* (first) to currentVar (last), each the _parent of the next; currentVar  *)
(* is null when open is empty, and rootVar is then the closed node root.   *)
(***************************************************************************)
ParseInit ==
  [result |-> <<>>, inVar |-> FALSE, currentString |-> <<>>, open |-> <<>>,
   root |-> Held(newTemplateVar, "null"), escapeNext |-> FALSE, error |-> NoError]

\* dumpArg() on node v; child is the node held in currentArg when the type is "var".
dumpArgFails(v) == v.currentArgType = "number" /\ isNaN(v.currentArg)

dumpArg(v, child) ==
  [v EXCEPT !.args =
              IF v.currentArgType = "null" THEN @
              ELSE IF v.currentArgType = "number" THEN Append(@, NumberArg(parseFloat(v.currentArg)))
              ELSE IF v.currentArgType = "string" THEN Append(@, TextPart(v.currentArg))
              ELSE Append(@, child),
            !.currentArg = <<>>,
            !.currentArgType = "null"]

\* currentVar = currentVar._parent alone: the pending argument of the parent
\* is not pushed.
returnToParentVarNoDump(st) ==
  LET n == Len(st.open)
  IN  IF n = 0 THEN st
      ELSE IF n = 1 THEN [st EXCEPT !.open = <<>>, !.root = Held(st.open[1], "null")]
      ELSE [st EXCEPT !.open = SubSeq(@, 1, n - 1)]

\* returnToParentVar(): currentVar = currentVar._parent, then dumpArg().
returnToParentVar(st) ==
  LET n == Len(st.open)
  IN  IF n = 0 THEN st
      ELSE IF n = 1 THEN [st EXCEPT !.open = <<>>, !.root = Held(st.open[1], "null")]
      ELSE [st EXCEPT !.open =
              Append(SubSeq(@, 1, n - 2), dumpArg(@[n - 1], Held(@[n], "node")))]

\* exitInjectedVar() without the comparison of currentVar with rootVar: the
\* root is pushed whatever is still open.
exitInjectedVarUnchecked(st) ==
  [st EXCEPT !.result =
               Append(@, IF st.open = <<>> THEN st.root ELSE Held(st.open[1], "null")),
             !.inVar = FALSE]

\* exitInjectedVar()
exitInjectedVar(st) ==
  IF Len(st.open) > 1 THEN [st EXCEPT !.error = UnclosedFunction]
  ELSE [st EXCEPT !.result =
                    Append(@, IF st.open = <<>> THEN st.root ELSE Held(st.open[1], "null")),
                  !.inVar = FALSE]

SetCurrent(st, v) == [st EXCEPT !.open[Len(st.open)] = v]

\* No character escapes the next one: a backslash is a character like any other.
IsEscapeNever(char) == FALSE

\* char === "\\", in literal text and in a quoted string
IsEscape(char) == char = "\\"

\* One turn of the loop over the characters: char at index i (from 0).
ParseChar(st, char, i) ==
  LET n == Len(st.open)
      cur == st.open[n]
  IN
  IF st.inVar THEN
    IF n > 0 THEN
      IF cur.inArg THEN
        IF cur.inQuote THEN
          IF st.escapeNext THEN
            [SetCurrent(st, [cur EXCEPT !.currentArg = Append(@, char)]) EXCEPT !.escapeNext = FALSE]
          ELSE IF IsEscape(char) THEN [st EXCEPT !.escapeNext = TRUE]
          ELSE IF char = "\"" THEN SetCurrent(st, [cur EXCEPT !.inQuote = FALSE])
          ELSE SetCurrent(st, [cur EXCEPT !.currentArg = Append(@, char)])
        ELSE IF char = ")" THEN
          IF dumpArgFails(cur) THEN [st EXCEPT !.error = InvalidNumeric]
          ELSE returnToParentVar(SetCurrent(st, dumpArg(cur, cur)))
        ELSE IF char = "," THEN
          IF dumpArgFails(cur) THEN [st EXCEPT !.error = InvalidNumeric]
          ELSE SetCurrent(st, dumpArg(cur, cur))
        ELSE IF cur.currentArgType = "number" THEN
          SetCurrent(st, [cur EXCEPT !.currentArg = Append(@, char)])
        ELSE IF IsWhitespace(char) THEN st
        ELSE IF char = "\"" THEN
          IF cur.currentArgType # "null" THEN [st EXCEPT !.error = UnexpectedChar(i)]
          ELSE SetCurrent(st, [cur EXCEPT !.currentArgType = "string", !.inQuote = TRUE])
        ELSE IF IsDigit(char) \/ char = "-" THEN
          IF cur.currentArgType # "null" THEN [st EXCEPT !.error = UnexpectedChar(i)]
          ELSE SetCurrent(st, [cur EXCEPT !.currentArgType = "number",
                                          !.currentArg = Append(@, char)])
        ELSE IF cur.currentArgType = "null" THEN
          [st EXCEPT !.open = Append(SetCurrent(st, [cur EXCEPT !.currentArgType = "var"]).open,
                                     [newTemplateVar EXCEPT !.identifier = <<char>>])]
        ELSE [st EXCEPT !.error = UnexpectedChar(i)]
      ELSE
        IF char = "(" THEN SetCurrent(st, [cur EXCEPT !.inArg = TRUE])
        ELSE IF char = "," THEN returnToParentVar(st)
        ELSE IF char = ")" THEN returnToParentVar(returnToParentVar(st))
        ELSE IF char = "}" THEN exitInjectedVar(st)
        ELSE SetCurrent(st, [cur EXCEPT !.identifier = Append(@, char)])
    ELSE
      IF char = "}" THEN exitInjectedVar(st)
      ELSE [st EXCEPT !.error = UnexpectedChar(i)]
  ELSE
    IF st.escapeNext THEN [st EXCEPT !.currentString = Append(@, char), !.escapeNext = FALSE]
    ELSE IF IsEscape(char) THEN [st EXCEPT !.escapeNext = TRUE]
    ELSE IF char = "{" THEN
      [st EXCEPT !.result = IF st.currentString # <<>> THEN Append(@, TextPart(st.currentString)) ELSE @,
                 !.currentString = <<>>,
                 !.open = <<newTemplateVar>>,
                 !.inVar = TRUE]
    ELSE [st EXCEPT !.currentString = Append(@, char)]

\* No check that the expression has been closed: what has been parsed is returned.
ParseEndUnchecked(st) ==
  IF st.currentString # <<>>
  THEN [st EXCEPT !.result = cleanUpParseResult(Append(@, TextPart(st.currentString))),
                  !.currentString = <<>>]
  ELSE [st EXCEPT !.result = cleanUpParseResult(@)]

\* The text after the last expression is not pushed.
ParseEndNoFlush(st) ==
  IF st.inVar THEN [st EXCEPT !.error = Unterminated]
  ELSE [st EXCEPT !.result = cleanUpParseResult(@)]

\* After the loop: the unterminated check, the last text fragment and the
\* clean-up of the result.
ParseEnd(st) ==
  IF st.inVar THEN [st EXCEPT !.error = Unterminated]
  ELSE IF st.currentString # <<>>
       THEN [st EXCEPT !.result = cleanUpParseResult(Append(@, TextPart(st.currentString))),
                       !.currentString = <<>>]
       ELSE [st EXCEPT !.result = cleanUpParseResult(@)]

RECURSIVE ReadFrom(_, _, _)
\* The loop over the characters from the k-th on, up to the end of chars or
\* to the first error: the locals as the loop leaves them.
ReadFrom(st, chars, k) ==
  IF st.error # NoError \/ k > Len(chars) THEN st
  ELSE ReadFrom(ParseChar(st, chars[k], k - 1), chars, k + 1)

RECURSIVE ParseFrom(_, _, _)
ParseFrom(st, chars, k) ==
  IF st.error # NoError THEN st
  ELSE IF k > Len(chars) THEN ParseEnd(st)
  ELSE ParseFrom(ParseChar(st, chars[k], k - 1), chars, k + 1)

\* parseTemplate(str): [error, result]; result is meaningful when error = NoError.
parseTemplate(str) ==
  LET st == ParseFrom(ParseInit, str, 1)
  IN  [error |-> st.error, result |-> IF st.error = NoError THEN st.result ELSE <<>>]

(***************************************************************************)
(* Values: TemplateSafeValue, and the plain objects that are not safe      *)
(***************************************************************************)

Null == [kind |-> "null"]
Str(s) == [kind |-> "str", s |-> s]
Num(n) == [kind |-> "num", n |-> n]
\* A number that is not finite carries its class.
NonFinite(v) == "class" \in DOMAIN v
Bool(b) == [kind |-> "bool", b |-> b]
Fn(name) == [kind |-> "fn", name |-> name]
Arr(items) == [kind |-> "arr", items |-> items]
\* A TemplateSafeValueContainer with the given own properties (key -> value).
Container(fields) == [kind |-> "container", fields |-> fields]
\* A plain native object: not a TemplateSafeValueContainer.
PlainObject == [kind |-> "object"]

NoFields == [k \in {} |-> Null]

RECURSIVE isTemplateSafeValue(_)
\* typeof value === "object" in place of the instanceof test: any object passes.
isTemplateSafeValueAnyObject(value) ==
  \/ value.kind \in {"null", "str", "num", "bool", "fn", "container", "object"}
  \/ value.kind = "arr" /\ \A k \in 1..Len(value.items) : isTemplateSafeValue(value.items[k])

isTemplateSafeValue(value) ==
  \/ value.kind \in {"null", "str", "num", "bool", "fn"}
  \/ value.kind = "arr" /\ \A k \in 1..Len(value.items) : isTemplateSafeValue(value.items[k])
  \/ value.kind = "container"

(***************************************************************************)
(* ingestDataIntoTemplateSafeValueContainer(target, data): data is the     *)
(* list Object.entries(data) of [key, value] pairs, target the own         *)
(* properties of the container.  The result is the target after the loop   *)
(* and whether (and at which key) the loop threw.                          *)
(***************************************************************************)
SetField(fields, key, value) ==
  [k \in DOMAIN fields \cup {key} |-> IF k = key THEN value ELSE fields[k]]

RECURSIVE ingestDataIntoTemplateSafeValueContainer(_, _)
ingestDataIntoTemplateSafeValueContainer(target, data) ==
  IF data = <<>> THEN [target |-> target, threw |-> FALSE, key |-> <<>>]
  ELSE IF ~isTemplateSafeValue(Head(data).value)
       THEN [target |-> target, threw |-> TRUE, key |-> Head(data).key]
       ELSE ingestDataIntoTemplateSafeValueContainer(
              SetField(target, Head(data).key, Head(data).value), Tail(data))

(***************************************************************************)
(* get(obj, path) and has(obj, path) of ./utils: the identifier is a       *)
(* dotted path, resolved through nested containers and, by a textual       *)
(* index, through arrays; a path that leads nowhere is undefined.          *)
(***************************************************************************)
RECURSIVE SplitPath(_, _)
SplitPath(path, acc) ==
  IF path = <<>> THEN IF acc = <<>> THEN <<>> ELSE <<acc>>
  ELSE IF Head(path) = "."
       THEN (IF acc = <<>> THEN <<>> ELSE <<acc>>) \o SplitPath(Tail(path), <<>>)
       ELSE SplitPath(Tail(path), Append(acc, Head(path)))

RECURSIVE Traverse(_, _)
Traverse(cursor, parts) ==
  IF parts = <<>> THEN cursor
  ELSE IF cursor.kind = "container" /\ Head(parts) \in DOMAIN cursor.fields
       THEN Traverse(cursor.fields[Head(parts)], Tail(parts))
  ELSE IF cursor.kind = "arr" /\ AllDigits(Head(parts))
          /\ DigitsValue(Head(parts)) < Len(cursor.items)
       THEN Traverse(cursor.items[DigitsValue(Head(parts)) + 1], Tail(parts))
  ELSE Null

get(values, path) == Traverse(Container(values), SplitPath(path, <<>>))

has(values, path) == get(values, path) # Null

\* values[key]: the own property, undefined when there is none.
Prop(values, key) == IF key \in DOMAIN values THEN values[key] ELSE Null

(***************************************************************************)
(* String conversion of JavaScript, as `result += value` applies it        *)
(***************************************************************************)
RECURSIVE NatToStr(_)
NatToStr(n) == IF n < 10 THEN <<Digits[n + 1]>> ELSE NatToStr(n \div 10) \o <<Digits[(n % 10) + 1]>>

NumToStr(n) == IF n < 0 THEN <<"-">> \o NatToStr(0 - n) ELSE NatToStr(n)

ObjectObject == <<"[", "o", "b", "j", "e", "c", "t", " ", "O", "b", "j", "e", "c", "t", "]">>

RECURSIVE ToStr(_)
RECURSIVE Join(_, _)
\* Array.prototype.join: null and undefined elements give the empty string.
Join(items, sep) ==
  IF items = <<>> THEN <<>>
  ELSE (IF Head(items).kind = "null" THEN <<>> ELSE ToStr(Head(items)))
       \o (IF Len(items) > 1 THEN sep \o Join(Tail(items), sep) ELSE <<>>)

ToStr(v) ==
  CASE v.kind = "str" -> v.s
    [] v.kind = "num" ->
         IF ~NonFinite(v) THEN NumToStr(v.n)
         ELSE IF v.class = "nan" THEN <<"N", "a", "N">>
         ELSE (IF v.n < 0 THEN <<"-">> ELSE <<>>) \o InfinityText
    [] v.kind = "bool" -> IF v.b THEN <<"t", "r", "u", "e">> ELSE <<"f", "a", "l", "s", "e">>
    [] v.kind = "null" -> <<"u", "n", "d", "e", "f", "i", "n", "e", "d">>
    [] v.kind = "arr" -> Join(v.items, <<",">>)
    [] v.kind = "fn" -> <<"function ", v.name>>
    [] OTHER -> ObjectObject

\* The truthiness of a value.
Truthy(v) ==
  CASE v.kind = "null" -> FALSE
    [] v.kind = "bool" -> v.b
    [] v.kind = "num" -> IF NonFinite(v) THEN v.class # "nan" ELSE v.n # 0
    [] v.kind = "str" -> v.s # <<>>
    [] OTHER -> TRUE

(***************************************************************************)
(* Callables: some of baseValues, and functions the host puts into the     *)
(* values of a render.                                                     *)
(***************************************************************************)
Arg(args, k) == IF k <= Len(args) THEN args[k] ELSE Null

UpperChar(c) ==
  CASE c = "a" -> "A" [] c = "b" -> "B" [] c = "c" -> "C" [] c = "d" -> "D"
    [] c = "x" -> "X" [] c = "y" -> "Y" [] c = "z" -> "Z" [] OTHER -> c

toUpperCase(s) == [k \in 1..Len(s) |-> UpperChar(s[k])]

BaseNames == {<<"i", "f">>, <<"n", "o", "t">>, <<"c", "o", "n", "c", "a", "t">>,
              <<"u", "p", "p", "e", "r">>,
              <<"c", "o", "n", "c", "a", "t", "A", "r", "r">>, <<"c", "a", "s", "e", "s">>}

\* Number(value), as isNaN(value) converts a value that is not a string:
\* undefined, functions and containers are NaN, an array goes through its
\* string.
ValueToNumber(v) ==
  CASE v.kind = "num" ->
         IF NonFinite(v) THEN [class |-> v.class, n |-> v.n]
         ELSE IF "d" \in DOMAIN v THEN [class |-> "finite", n |-> v.n, d |-> v.d]
         ELSE Finite(v.n)
    [] v.kind = "str" -> ToNumber(v.s)
    [] v.kind = "bool" -> Finite(IF v.b THEN 1 ELSE 0)
    [] v.kind = "arr" -> ToNumber(ToStr(v))
    [] OTHER -> NaN

\* parseInt(value, 10): the value as a string, leading whitespace skipped,
\* then the longest optionally signed run of digits; NaN when there is none.
parseInt(v) ==
  LET t == TrimLeft(ToStr(v))
      u == StripSign(t)
  IN  IF DigitPrefix(u) = <<>> THEN NaN ELSE Finite(Signed(t, DigitsValue(DigitPrefix(u))))

\* a % n of JavaScript for n > 0: the remainder has the sign of a.
RemainderFloored(a, n) == a % n

Remainder(a, n) == IF a >= 0 THEN a % n ELSE 0 - ((0 - a) % n)

\* Math.max(a, b)
Max(a, b) == IF a >= b THEN a ELSE b

\* baseValues.cases(mod, ...cases); cases[NaN] is undefined
cases(args) ==
  LET mod == Arg(args, 1)
      list == IF args = <<>> THEN <<>> ELSE Tail(args)
  IN  IF list = <<>> THEN Str(<<>>)
      ELSE IF ValueToNumber(mod).class = "nan" THEN Str(<<>>)
      ELSE IF parseInt(mod).class # "finite" THEN Null
      ELSE list[Max(0, Remainder(parseInt(mod).n - 1, Len(list))) + 1]

(***************************************************************************)
(* The arithmetic of JavaScript numbers, on the number records above.  A   *)
(* finite number that is not an integer is a reduced fraction n / d with   *)
(* d > 1; the operations are exact, where those of the source round to a   *)
(* double, and the zero has no sign.                                       *)
(***************************************************************************)
RECURSIVE Gcd(_, _)
Gcd(a, b) == IF b = 0 THEN a ELSE Gcd(b, a % b)

Abs(n) == IF n < 0 THEN 0 - n ELSE n

Den(x) == IF "d" \in DOMAIN x THEN x.d ELSE 1

\* The number n / d, for d # 0.
Ratio(n, d) ==
  LET g == Gcd(Abs(n), Abs(d))
      num == (IF d < 0 THEN 0 - n ELSE n) \div g
      den == Abs(d) \div g
  IN  IF den = 1 THEN Finite(num) ELSE [class |-> "finite", n |-> num, d |-> den]

Sign(x) == IF x.n > 0 THEN 1 ELSE IF x.n < 0 THEN 0 - 1 ELSE 0

Negate(x) == [x EXCEPT !.n = 0 - x.n]

\* x + y
Plus(x, y) ==
  IF x.class = "nan" \/ y.class = "nan" THEN NaN
  ELSE IF x.class = "infinite" /\ y.class = "infinite" THEN (IF x.n = y.n THEN x ELSE NaN)
  ELSE IF x.class = "infinite" THEN x
  ELSE IF y.class = "infinite" THEN y
  ELSE Ratio(x.n * Den(y) + y.n * Den(x), Den(x) * Den(y))

\* x - y
Minus(x, y) == Plus(x, Negate(y))

\* x * y
Times(x, y) ==
  IF x.class = "nan" \/ y.class = "nan" THEN NaN
  ELSE IF x.class = "infinite" \/ y.class = "infinite"
       THEN (IF Sign(x) = 0 \/ Sign(y) = 0 THEN NaN ELSE Infinite(Sign(x) * Sign(y)))
  ELSE Ratio(x.n * y.n, Den(x) * Den(y))

\* x / y
Over(x, y) ==
  IF x.class = "nan" \/ y.class = "nan" THEN NaN
  ELSE IF x.class = "infinite"
       THEN (IF y.class = "infinite" THEN NaN
             ELSE Infinite(IF Sign(y) < 0 THEN 0 - x.n ELSE x.n))
  ELSE IF y.class = "infinite" THEN Finite(0)
  ELSE IF y.n = 0 THEN (IF x.n = 0 THEN NaN ELSE Infinite(Sign(x)))
  ELSE Ratio(x.n * Den(y), Den(x) * y.n)

\* The number as a value of the language.
NumberValue(x) ==
  IF x.class # "finite" THEN [kind |-> "num", n |-> x.n, class |-> x.class]
  ELSE IF Den(x) = 1 THEN Num(x.n)
  ELSE [kind |-> "num", n |-> x.n, d |-> x.d]

(***************************************************************************)
(* baseValues.add, sub, mul and div: args.reduce over the arguments.  The  *)
(* operators -, * and / convert the running result by Number(), and + adds *)
(* numbers because add starts from 0.                                      *)
(***************************************************************************)
ArithNames == {<<"a", "d", "d">>, <<"s", "u", "b">>, <<"m", "u", "l">>, <<"d", "i", "v">>}

\* isNaN(arg) of a value
IsNaNValue(arg) == ValueToNumber(arg).class = "nan"

\* parseFloat(arg) of a value: the value is converted to a string first.
ParseFloatValue(arg) == parseFloat(ToStr(arg))

\* if (isNaN(arg)) return result, without the test of a zero divisor
SkipsDivisorNaNOnly(arg) == IsNaNValue(arg)

\* if (isNaN(arg) || parseFloat(arg) === 0) return result
SkipsDivisor(arg) == IsNaNValue(arg) \/ ParseFloatValue(arg) = Finite(0)

\* The callback of the reduce of each of the four.
ReduceStep(name, result, arg) ==
  CASE name = <<"a", "d", "d">> ->
         IF IsNaNValue(arg) THEN result
         ELSE NumberValue(Plus(ValueToNumber(result), ParseFloatValue(arg)))
    [] name = <<"s", "u", "b">> ->
         IF IsNaNValue(arg) THEN result
         ELSE NumberValue(Minus(ValueToNumber(result), ParseFloatValue(arg)))
    [] name = <<"m", "u", "l">> ->
         IF IsNaNValue(arg) THEN result
         ELSE NumberValue(Times(ValueToNumber(result), ParseFloatValue(arg)))
    [] name = <<"d", "i", "v">> ->
         IF SkipsDivisor(arg) THEN result
         ELSE NumberValue(Over(ValueToNumber(result), ParseFloatValue(arg)))

RECURSIVE reduce(_, _, _)
\* args.reduce(callback, result)
reduce(name, result, args) ==
  IF args = <<>> THEN result ELSE reduce(name, ReduceStep(name, result, Head(args)), Tail(args))

add(args) == reduce(<<"a", "d", "d">>, Num(0), args)

sub(args) == IF args = <<>> THEN Num(0) ELSE reduce(<<"s", "u", "b">>, Head(args), Tail(args))

mul(args) == IF args = <<>> THEN Num(0) ELSE reduce(<<"m", "u", "l">>, Head(args), Tail(args))

div(args) == IF args = <<>> THEN Num(0) ELSE reduce(<<"d", "i", "v">>, Head(args), Tail(args))

\* baseValues[name](...args) for the four
CallArith(name, args) ==
  CASE name = <<"a", "d", "d">> -> add(args)
    [] name = <<"s", "u", "b">> -> sub(args)
    [] name = <<"m", "u", "l">> -> mul(args)
    [] name = <<"d", "i", "v">> -> div(args)

\* arr.join: of the values of the model only an array has a method join (no
\* container of the model stores a function under that key).
HasJoin(arr) == arr.kind = "arr"

\* baseValues.concatArr(arr, separator = ""), where arr.join can be called
concatArr(arr, separator) ==
  Str(Join(arr.items, IF separator = Null THEN <<>> ELSE ToStr(separator)))

\* The call of the built-in throws: a TypeError of arr.join(separator) when
\* arr is undefined, or has no join.
CallThrows(name, args) ==
  name = <<"c", "o", "n", "c", "a", "t", "A", "r", "r">> /\ ~HasJoin(Arg(args, 1))

NotAFunction == [msg |-> "TypeError: arr.join is not a function", identifier |-> <<>>]

\* baseValues[name](...args)
CallBase(name, args) ==
  CASE name = <<"i", "f">> -> IF Truthy(Arg(args, 1)) THEN Arg(args, 2) ELSE Arg(args, 3)
    [] name = <<"n", "o", "t">> -> Bool(~Truthy(Arg(args, 1)))
    [] name = <<"c", "o", "n", "c", "a", "t">> -> Str(Join(args, <<>>))
    [] name = <<"u", "p", "p", "e", "r">> ->
         IF Arg(args, 1).kind # "str" THEN Arg(args, 1) ELSE Str(toUpperCase(Arg(args, 1).s))
    [] name = <<"c", "o", "n", "c", "a", "t", "A", "r", "r">> ->
         IF HasJoin(Arg(args, 1)) THEN concatArr(Arg(args, 1), Arg(args, 2)) ELSE Null
    [] name = <<"c", "a", "s", "e", "s">> -> cases(args)

\* Functions of the host: one that returns a plain object, one that returns
\* an array holding a plain object, one that returns nothing, one that
\* returns its arguments as an array.
HostNames == {<<"o", "b", "j">>, <<"o", "b", "j", "s">>, <<"n", "i", "l">>,
              <<"l", "i", "s", "t">>}

CallHost(name, args) ==
  CASE name = <<"o", "b", "j">> -> PlainObject
    [] name = <<"o", "b", "j", "s">> -> Arr(<<Str(<<"x">>), PlainObject>>)
    [] name = <<"n", "i", "l">> -> Null
    [] name = <<"l", "i", "s", "t">> -> Arr(args)

CallFn(name, args) == IF name \in BaseNames THEN CallBase(name, args) ELSE CallHost(name, args)

baseValues == [name \in BaseNames |-> Fn(name)]


(***************************************************************************)
(* evaluateTemplateVariable and renderParsedTemplate as functions of       *)
(* their arguments (every await taken to completion): the value or the     *)
(* error of a node, the output or the error of a parsed template, and the  *)
(* identifiers of the callables invoked, in the order of their invocation. *)
(***************************************************************************)
UnsafeReturn(identifier) == [msg |-> "returned unsafe value", identifier |-> identifier]
NoEvalError == [msg |-> "", identifier |-> <<>>]

\* The test of line 348 passes for every value.
IsCallableAlways(value) == TRUE

\* typeof value === "function"
IsCallable(value) == value.kind = "fn"

\* No function is taken for a nested one: the test of line 350 left out.
IsNestedNever(values, identifier) == FALSE

\* values[theVar.identifier] == null: the function is not a property of
\* values itself, it was found along a path.
IsNested(values, identifier) == Prop(values, identifier) = Null

\* The node invokes a callable: its path resolves to a function and the
\* identifier is itself a property of values.
IsInvocation(theVar, values) ==
  get(values, theVar.identifier).kind = "fn" /\ Prop(values, theVar.identifier) # Null

\* args.push(arg) of a literal argument: the number or the string.
ArgValue(arg) ==
  IF arg.kind # "num" THEN Str(arg.text)
  ELSE IF NonFinite(arg) THEN [kind |-> "num", n |-> arg.num, class |-> arg.class]
  ELSE Num(arg.num)

\* return value: undefined and null are handed on as they are.
OrEmptyKeepNull(v) == v

\* return value == null ? "" : value
OrEmpty(v) == IF v = Null THEN Str(<<>>) ELSE v

RECURSIVE EvaluateVar(_, _)
RECURSIVE EvaluateArgs(_, _, _)
\* The arguments from the k-th on: [error, args, calls].
EvaluateArgs(theVar, values, k) ==
  IF k > Len(theVar.args) THEN [error |-> NoEvalError, args |-> <<>>, calls |-> <<>>]
  ELSE LET arg == theVar.args[k]
           first == IF arg.kind = "var" THEN EvaluateVar(arg, values)
                    ELSE [error |-> NoEvalError, calls |-> <<>>,
                          value |-> ArgValue(arg)]
       IN  IF first.error # NoEvalError
           THEN [error |-> first.error, args |-> <<>>, calls |-> first.calls]
           ELSE LET rest == EvaluateArgs(theVar, values, k + 1)
                IN  [error |-> rest.error, args |-> <<first.value>> \o rest.args,
                     calls |-> first.calls \o rest.calls]

EvaluateVar(theVar, values) ==
  LET value == get(values, theVar.identifier)
  IN  IF IsCallable(value) THEN
        IF IsNested(values, theVar.identifier)
        THEN [error |-> NoEvalError, value |-> Str(<<>>), calls |-> <<>>]
        ELSE LET a == EvaluateArgs(theVar, values, 1)
                 r == CallFn(value.name, a.args)
                 calls == Append(a.calls, theVar.identifier)
             IN  IF a.error # NoEvalError
                 THEN [error |-> a.error, value |-> Null, calls |-> a.calls]
                 ELSE IF CallThrows(value.name, a.args)
                 THEN [error |-> NotAFunction, value |-> Null, calls |-> calls]
                 ELSE IF ~isTemplateSafeValue(r)
                 THEN [error |-> UnsafeReturn(theVar.identifier), value |-> Null, calls |-> calls]
                 ELSE [error |-> NoEvalError, value |-> OrEmpty(r), calls |-> calls]
      ELSE [error |-> NoEvalError, value |-> OrEmpty(value), calls |-> <<>>]

RECURSIVE RenderParts(_, _, _)
\* The parts from the k-th on: [error, output, calls].
RenderParts(parsedTemplate, values, k) ==
  IF k > Len(parsedTemplate) THEN [error |-> NoEvalError, output |-> <<>>, calls |-> <<>>]
  ELSE LET part == parsedTemplate[k]
           first == IF part.kind = "var" THEN EvaluateVar(part, values)
                    ELSE [error |-> NoEvalError, calls |-> <<>>, value |-> Str(part.text)]
       IN  IF first.error # NoEvalError
           THEN [error |-> first.error, output |-> <<>>, calls |-> first.calls]
           ELSE LET rest == RenderParts(parsedTemplate, values, k + 1)
                IN  [error |-> rest.error,
                     output |-> IF rest.error = NoEvalError
                                THEN ToStr(first.value) \o rest.output ELSE <<>>,
                     calls |-> first.calls \o rest.calls]


(***************************************************************************)
(* Bounds of the model                                                     *)
(***************************************************************************)

\* The capacity of the template cache.  The source sets it to 200 (line
\* 60); the model runs the same comparison against a smaller capacity, so
\* that the cache fills up and overflows within the bounds.
TEMPLATE_CACHE_SIZE == 3

\* The number of renderTemplate calls that can be in flight at once.
NumCalls == 2

(***************************************************************************)
(* The template cache: a Map, which keeps its entries in insertion order   *)
(***************************************************************************)
MapKeys(m) == {m[k].key : k \in 1..Len(m)}
MapHas(m, key) == key \in MapKeys(m)
\* The value of the first entry, whatever the key.
MapGetFirst(m, key) == m[1].value

MapGet(m, key) == m[CHOOSE k \in 1..Len(m) : m[k].key = key].value
MapSize(m) == Len(m)
\* m.keys().next().value; undefined (here the empty string) for an empty map.
MapFirstKey(m) == IF m = <<>> THEN <<>> ELSE m[1].key
MapDelete(m, key) == SelectSeq(m, LAMBDA e : e.key # key)
\* m.set(key, value): a present key keeps its place, a new one goes last.
MapSet(m, key, value) ==
  IF MapHas(m, key)
  THEN [k \in 1..Len(m) |-> IF m[k].key = key THEN [key |-> key, value |-> value] ELSE m[k]]
  ELSE Append(m, [key |-> key, value |-> value])

(***************************************************************************)
(* State                                                                   *)
(***************************************************************************)
VARIABLES
  templateCache,   \* the module-level Map from template string to ParsedTemplate
  insertedBefore,  \* history: the pairs <<k1, k2>> of cached keys with k1 inserted before k2
  running,         \* the call that holds the thread of the event loop, 0 when none does
  call,            \* per call slot: the locals and the position of one renderTemplate call
  input,           \* the characters of a template read so far by a parseTemplate call
  parser,          \* the locals of that parseTemplate call, and what became of its result
  container,       \* a TemplateSafeValueContainer of the host: its own properties
  ingest,          \* the last construction of, or ingestion into, that container
  probe,           \* the last direct call of a function: its arguments and what came back
  logs             \* the Logs plugin: cooldowns, buffers, sends in flight, the log() call

cacheVars == <<templateCache, insertedBefore>>
callVars == <<running, call>>
parseVars == <<input, parser>>
ingestVars == <<container, ingest>>
probeVars == <<probe>>
logVars == <<logs>>
vars == <<cacheVars, callVars, parseVars, ingestVars, probeVars, logVars>>

\* What a renderTemplate call leaves alone, beside the cache.
renderFrame == <<parseVars, ingestVars, probeVars, logVars>>

Calls == 1..NumCalls

\* The positions at which an async function is suspended at an await:
\* line 357 (an argument), line 364 (the callable) and line 380 (a part).
\* As if parseTemplate were asynchronous and awaited: the call is suspended
\* between the parse and the update of the cache.
AwaitPointsWithParse == {"awaitArg", "awaitCall", "awaitPart", "evict"}

AwaitPoints == {"awaitArg", "awaitCall", "awaitPart"}

\* A call that is not running: not started, suspended at an await, or settled.
Suspended == AwaitPoints \cup {"idle", "done", "failed"}

NoOutcome == [status |-> "pending", output |-> <<>>, parseError |-> NoError, evalError |-> NoEvalError]

IdleCall ==
  [pc |-> "idle", template |-> <<>>, given |-> NoFields, includeBaseValues |-> FALSE,
   values |-> NoFields, hit |-> FALSE,
   parseResult |-> <<>>, partIdx |-> 1, result |-> <<>>, frames |-> <<>>,
   ret |-> Null, outcome |-> NoOutcome, trace |-> <<>>]

\* Object.assign({}, a, b): the properties of b override those of a.
ObjectAssign(a, b) == [k \in DOMAIN a \cup DOMAIN b |-> IF k \in DOMAIN b THEN b[k] ELSE a[k]]

\* A call may take a step when it holds the thread, or when it is suspended
\* and no call holds the thread.
MayRun(p) == IF call[p].pc \in Suspended THEN running = 0 ELSE running = p

\* The step of call p to the locals c: it keeps the thread unless it is suspended.
Step(p, c) ==
  /\ call' = [call EXCEPT ![p] = c]
  /\ running' = IF c.pc \in Suspended THEN 0 ELSE p

\* The promise of the call is fulfilled with its result.
Fulfil(c) ==
  [c EXCEPT !.pc = "done", !.outcome = [NoOutcome EXCEPT !.status = "fulfilled", !.output = c.result]]

\* The error of the parser is swallowed: the call goes on to the update of
\* the cache with an empty parse result.
ParseErrorIgnored(c, err) == [c EXCEPT !.pc = "evict", !.parseResult = <<>>]

\* An error thrown in the call rejects its promise.
RejectParse(c, err) ==
  [c EXCEPT !.pc = "failed", !.outcome = [NoOutcome EXCEPT !.status = "rejected", !.parseError = err]]

\* The error is swallowed and the call returns what it has accumulated.
ReturnPartial(c, err) ==
  [c EXCEPT !.pc = "done", !.outcome = [NoOutcome EXCEPT !.status = "fulfilled", !.output = c.result]]

RejectEval(c, err) ==
  [c EXCEPT !.pc = "failed", !.outcome = [NoOutcome EXCEPT !.status = "rejected", !.evalError = err]]

(***************************************************************************)
(* renderTemplate(template, values, includeBaseValues)                     *)
(***************************************************************************)
RenderTemplateCall(p, template, values, includeBaseValues) ==
  /\ call[p].pc \in {"idle", "done", "failed"}
  /\ MayRun(p)
  /\ LET merged == IF includeBaseValues THEN ObjectAssign(baseValues, values) ELSE values
         c == [IdleCall EXCEPT !.template = template, !.given = values,
                               !.includeBaseValues = includeBaseValues, !.values = merged]
     IN  IF \E k \in DOMAIN merged : ~isTemplateSafeValue(merged[k])
         THEN Step(p, RejectEval(c, [msg |-> "Unsafe value", identifier |-> <<>>]))
         ELSE Step(p, [c EXCEPT !.pc = "lookup"])
  /\ UNCHANGED <<cacheVars, renderFrame>>

\* A lookup that refreshes the entry it hits, as a recency cache would: the
\* entry is deleted and set again, which moves it to the end of the Map.
LookupPromoting(p) ==
  /\ call[p].pc = "lookup"
  /\ MayRun(p)
  /\ IF MapHas(templateCache, call[p].template)
     THEN /\ Step(p, [call[p] EXCEPT !.pc = "render", !.hit = TRUE,
                                     !.parseResult = MapGet(templateCache, call[p].template)])
          /\ templateCache' = MapSet(MapDelete(templateCache, call[p].template),
                                     call[p].template, MapGet(templateCache, call[p].template))
     ELSE /\ Step(p, [call[p] EXCEPT !.pc = "parse"])
          /\ templateCache' = templateCache
  /\ UNCHANGED <<insertedBefore, renderFrame>>

\* templateCache.has(template), and templateCache.get(template) on a hit
Lookup(p) ==
  /\ call[p].pc = "lookup"
  /\ MayRun(p)
  /\ IF MapHas(templateCache, call[p].template)
     THEN Step(p, [call[p] EXCEPT !.pc = "render", !.hit = TRUE,
                                  !.parseResult = MapGet(templateCache, call[p].template)])
     ELSE Step(p, [call[p] EXCEPT !.pc = "parse"])
  /\ UNCHANGED <<cacheVars, renderFrame>>

\* parseResult = parseTemplate(template)
Parse(p) ==
  /\ call[p].pc = "parse"
  /\ MayRun(p)
  /\ LET r == parseTemplate(call[p].template)
     IN  IF r.error # NoError
         THEN Step(p, RejectParse(call[p], r.error))
         ELSE Step(p, [call[p] EXCEPT !.pc = "evict", !.parseResult = r.result])
  /\ UNCHANGED <<cacheVars, renderFrame>>

\* templateCache.size > TEMPLATE_CACHE_SIZE: a full cache is not yet over it.
CacheFullOffByOne(m) == MapSize(m) > TEMPLATE_CACHE_SIZE

\* templateCache.size >= TEMPLATE_CACHE_SIZE
CacheFull(m) == MapSize(m) >= TEMPLATE_CACHE_SIZE

\* If our template cache is full, delete the first item
Evict(p) ==
  /\ call[p].pc = "evict"
  /\ MayRun(p)
  /\ IF CacheFull(templateCache)
     THEN LET firstKey == MapFirstKey(templateCache)
          IN  /\ templateCache' = MapDelete(templateCache, firstKey)
              /\ insertedBefore' = {pr \in insertedBefore : pr[1] # firstKey /\ pr[2] # firstKey}
     ELSE UNCHANGED <<templateCache, insertedBefore>>
  /\ Step(p, [call[p] EXCEPT !.pc = "insert"])
  /\ UNCHANGED renderFrame

\* templateCache.set(template, parseResult)
Insert(p) ==
  /\ call[p].pc = "insert"
  /\ MayRun(p)
  /\ templateCache' = MapSet(templateCache, call[p].template, call[p].parseResult)
  /\ insertedBefore' =
       IF call[p].template \in MapKeys(templateCache) THEN insertedBefore
       ELSE insertedBefore \cup {<<k, call[p].template>> : k \in MapKeys(templateCache)}
  /\ Step(p, [call[p] EXCEPT !.pc = "render"])
  /\ UNCHANGED renderFrame

(***************************************************************************)
(* renderParsedTemplate and evaluateTemplateVariable, await by await       *)
(***************************************************************************)
\* One activation of evaluateTemplateVariable: its node, the function it
\* resolved to, the index of the next argument (from 1), the evaluated
\* arguments, and whether the function has been called.
NewFrame(theVar) == [node |-> theVar, fn |-> Null, argIdx |-> 1, args |-> <<>>, invoked |-> FALSE]

\* result += piece
PrependPiece(result, piece) == piece \o result

AddPiece(result, piece) == result \o piece

Top(c) == c.frames[Len(c.frames)]
SetTop(c, f) == [c EXCEPT !.frames[Len(c.frames)] = f]

\* evaluateTemplateVariable returns v: its promise resolves, and the caller
\* that awaits it (an argument loop, or the loop over the parts) goes on later.
Return(c, v) ==
  [c EXCEPT !.frames = SubSeq(@, 1, Len(@) - 1),
            !.ret = v,
            !.pc = IF Len(c.frames) > 1 THEN "awaitArg" ELSE "awaitPart"]

\* for (const part of parsedTemplate): one part, up to its await
RenderLoop(p) ==
  /\ call[p].pc = "render"
  /\ MayRun(p)
  /\ LET c == call[p] IN
       IF c.partIdx > Len(c.parseResult) THEN Step(p, Fulfil(c))
       ELSE IF c.parseResult[c.partIdx].kind = "var"
       THEN Step(p, [c EXCEPT !.pc = "evaluate",
                              !.frames = <<NewFrame(c.parseResult[c.partIdx])>>])
       ELSE Step(p, [c EXCEPT !.result = AddPiece(@, c.parseResult[c.partIdx].text),
                              !.partIdx = @ + 1])
  /\ UNCHANGED <<cacheVars, renderFrame>>

\* result += await evaluateTemplateVariable(part, values), after the await
ResumePart(p) ==
  /\ call[p].pc = "awaitPart"
  /\ MayRun(p)
  /\ Step(p, [call[p] EXCEPT !.pc = "render", !.result = AddPiece(@, ToStr(call[p].ret)),
                             !.partIdx = @ + 1, !.ret = Null])
  /\ UNCHANGED <<cacheVars, renderFrame>>

\* The head of evaluateTemplateVariable: the lookup of the identifier
Evaluate(p) ==
  /\ call[p].pc = "evaluate"
  /\ MayRun(p)
  /\ LET c == call[p]
         theVar == Top(c).node
         value == IF has(c.values, theVar.identifier) THEN get(c.values, theVar.identifier) ELSE Null
     IN  IF IsCallable(value) THEN
           IF IsNested(c.values, theVar.identifier) THEN Step(p, Return(c, Str(<<>>)))
           ELSE Step(p, [SetTop(c, [Top(c) EXCEPT !.fn = value]) EXCEPT !.pc = "args"])
         ELSE Step(p, Return(c, OrEmpty(value)))
  /\ UNCHANGED <<cacheVars, renderFrame>>

\* The loop over the arguments ends one argument early.
ArgsDoneEarly(f) == f.argIdx >= Len(f.node.args)

\* Every argument has been evaluated.
ArgsDone(f) == f.argIdx > Len(f.node.args)

\* for (const arg of theVar.args): one argument, or the call of the function
EvalArgs(p) ==
  /\ call[p].pc = "args"
  /\ MayRun(p)
  /\ LET c == call[p]
         f == Top(c)
     IN  IF ArgsDone(f)
         THEN Step(p, [SetTop(c, [f EXCEPT !.invoked = TRUE])
                         EXCEPT !.pc = "awaitCall", !.trace = Append(@, f.node.identifier)])
         ELSE LET arg == f.node.args[f.argIdx] IN
              IF arg.kind = "var"
              THEN Step(p, [c EXCEPT !.pc = "evaluate", !.frames = Append(@, NewFrame(arg))])
              ELSE Step(p, SetTop(c, [f EXCEPT !.argIdx = @ + 1,
                                               !.args = Append(@, ArgValue(arg))]))
  /\ UNCHANGED <<cacheVars, renderFrame>>

\* args.push(argValue), after the await of line 357
ResumeArg(p) ==
  /\ call[p].pc = "awaitArg"
  /\ MayRun(p)
  /\ LET c == call[p]
         f == Top(c)
     IN  Step(p, [SetTop(c, [f EXCEPT !.argIdx = @ + 1, !.args = Append(@, c.ret)])
                    EXCEPT !.pc = "args", !.ret = Null])
  /\ UNCHANGED <<cacheVars, renderFrame>>

\* const result = await value(...args), after the await, and the check of the result
CallReturn(p) ==
  /\ call[p].pc = "awaitCall"
  /\ MayRun(p)
  /\ LET c == call[p]
         f == Top(c)
         result == CallFn(f.fn.name, f.args)
     IN  IF CallThrows(f.fn.name, f.args) THEN Step(p, RejectEval(c, NotAFunction))
         ELSE IF ~isTemplateSafeValue(result)
         THEN Step(p, RejectEval(c, UnsafeReturn(f.node.identifier)))
         ELSE Step(p, Return(c, OrEmpty(result)))
  /\ UNCHANGED <<cacheVars, renderFrame>>

(***************************************************************************)
(* The calls of the model                                                  *)
(***************************************************************************)

\* The values a host passes: data, and functions of its own.
HostValues ==
  [k \in {<<"n">>} \cup HostNames |-> IF k = <<"n">> THEN Str(<<"a", "d", "a">>) ELSE Fn(k)]

\* Templates without expressions, one more than the cache can hold.
Literal(k) == [j \in 1..k |-> "a"]
LiteralTemplates == {Literal(k) : k \in 1..(TEMPLATE_CACHE_SIZE + 1)}

\* "{n}", "{upper(n)}", "b{obj()}" (its callable returns a plain object)
\* and "{" (which does not parse).
CacheTemplates ==
  LiteralTemplates \cup
  { <<"{", "n", "}">>,
    <<"{", "u", "p", "p", "e", "r", "(", "n", ")", "}">>,
    <<"b", "{", "o", "b", "j", "(", ")", "}">>,
    <<"{">> }

(***************************************************************************)
(* parseTemplate read character by character, and the rendering of its     *)
(* result by renderParsedTemplate                                          *)
(***************************************************************************)

\* The longest template the parser is given.
MaxLen == 4

\* The characters of those templates.
ParseChars == {"a", "1", "-", " ", "\\", "\"", "{", "}", "(", ")", ","}

NoParse == [st |-> ParseInit, phase |-> "reading", output |-> <<>>, evalError |-> NoEvalError]

\* for (const [i, char] of chars.entries()): the next character
ReadChar(char) ==
  /\ parser.phase = "reading"
  /\ parser.st.error = NoError
  /\ Len(input) < MaxLen
  /\ input' = Append(input, char)
  /\ parser' = [parser EXCEPT !.st = ParseChar(parser.st, char, Len(input))]
  /\ UNCHANGED <<cacheVars, callVars, ingestVars, probeVars, logVars>>

\* The end of the string: the checks after the loop
EndOfInput ==
  /\ parser.phase = "reading"
  /\ parser.st.error = NoError
  /\ parser' = [parser EXCEPT !.st = ParseEnd(parser.st), !.phase = "parsed"]
  /\ UNCHANGED <<input, cacheVars, callVars, ingestVars, probeVars, logVars>>

\* renderParsedTemplate(parseTemplate(input), values)
RenderParsed(values) ==
  /\ parser.phase = "parsed"
  /\ parser.st.error = NoError
  /\ LET r == RenderParts(parser.st.result, values, 1)
     IN  parser' = [parser EXCEPT !.phase = "rendered", !.output = r.output, !.evalError = r.error]
  /\ UNCHANGED <<input, cacheVars, callVars, ingestVars, probeVars, logVars>>

(***************************************************************************)
(* The container of the host: new TemplateSafeValueContainer(data) and     *)
(* ingestDataIntoTemplateSafeValueContainer(target, data)                  *)
(***************************************************************************)

\* The most entries of a data object.
MaxEntries == 2

IngestKeys == {<<"a">>, <<"b">>, <<"c">>}

\* A string, a plain object, and an array that holds a plain object.
IngestValues == {Str(<<"x">>), PlainObject, Arr(<<Str(<<"x">>), PlainObject>>)}

\* Object.entries(data) of the data objects: their keys are distinct.
DataObjects ==
  UNION { { d \in [1..n -> [key : IngestKeys, value : IngestValues]] :
              \A j, k \in 1..n : j # k => d[j].key # d[k].key } : n \in 0..MaxEntries }

NoIngest == [status |-> "none", data |-> <<>>, key |-> <<>>, before |-> NoFields]

\* new TemplateSafeValueContainer(data): when the constructor throws, no object
\* comes back and the host keeps the container it had.
NewContainer(data) ==
  /\ LET r == ingestDataIntoTemplateSafeValueContainer(NoFields, data)
     IN  /\ container' = IF r.threw THEN container ELSE [exists |-> TRUE, fields |-> r.target]
         /\ ingest' = [status |-> IF r.threw THEN "threw" ELSE "ok", data |-> data,
                       key |-> r.key, before |-> IF r.threw THEN container.fields ELSE NoFields]
  /\ UNCHANGED <<cacheVars, callVars, parseVars, probeVars, logVars>>

\* ingestDataIntoTemplateSafeValueContainer(container, data)
IngestData(data) ==
  /\ container.exists
  /\ LET r == ingestDataIntoTemplateSafeValueContainer(container.fields, data)
     IN  /\ container' = [container EXCEPT !.fields = r.target]
         /\ ingest' = [status |-> IF r.threw THEN "threw" ELSE "ok", data |-> data,
                       key |-> r.key, before |-> container.fields]
  /\ UNCHANGED <<cacheVars, callVars, parseVars, probeVars, logVars>>

(***************************************************************************)
(* isTemplateSafeValue(value) called on the values of a bounded universe   *)
(***************************************************************************)

\* The most elements of an array, and own properties of an object, of that universe.
MaxItems == 2

NoProbe == [op |-> "none", args |-> <<>>, result |-> Null, threw |-> FALSE]

\* A value of every type but the compound ones, and a plain object.
AtomValues == {Null, Str(<<"x">>), Num(1), Bool(TRUE), Fn(<<"o", "b", "j">>), PlainObject}

\* The arrays of up to MaxItems of the given values.
ArraysOf(vs) == { Arr(items) : items \in UNION { [1..n -> vs] : n \in 0..MaxItems } }

\* The containers that hold the given values under up to MaxItems keys.  The
\* class declares an index signature (line 118): a property of an instance
\* can be written after its construction, with no validation.
ContainersOf(vs) ==
  { Container(fields) :
      fields \in UNION { [ks -> vs] : ks \in { k \in SUBSET IngestKeys : Cardinality(k) <= MaxItems } } }

FlatValues == AtomValues \cup ArraysOf(AtomValues) \cup ContainersOf(AtomValues)

\* The values, nested up to twice.
ProbeValues ==
  FlatValues \cup { Arr(<<v>>) : v \in FlatValues } \cup { Container([k \in {<<"a">>} |-> v]) : v \in FlatValues }

\* isTemplateSafeValue(value)
CheckValue(value) ==
  /\ probe' = [op |-> "isTemplateSafeValue", args |-> <<value>>,
               result |-> Bool(isTemplateSafeValue(value)), threw |-> FALSE]
  /\ UNCHANGED <<cacheVars, callVars, parseVars, ingestVars, logVars>>

(***************************************************************************)
(* isTemplateSafeValue(value) called on deeply nested values               *)
(***************************************************************************)

\* The most levels of nesting around the innermost value.
MaxNesting == 4

\* One more level around a value: an array of it, an array of a string and
\* it, a container that holds it.
Wrappings == {"array", "pair", "container"}

Wrap(w, v) ==
  CASE w = "array" -> Arr(<<v>>)
    [] w = "pair" -> Arr(<<Str(<<"x">>), v>>)
    [] w = "container" -> Container([k \in {<<"a">>} |-> v])

RECURSIVE Nest(_, _)
\* The value inside the wrappings ws, the first of them outermost.
Nest(ws, v) == IF ws = <<>> THEN v ELSE Wrap(Head(ws), Nest(Tail(ws), v))

NestedValues ==
  { Nest(ws, v) : ws \in UNION { [1..n -> Wrappings] : n \in 0..MaxNesting },
                  v \in {Str(<<"x">>), PlainObject} }

(***************************************************************************)
(* parseTemplate on templates with one call, "{f(" text ")}" or            *)
(* "{f(" text ",1)}", whose first argument is a numeric argument           *)
(***************************************************************************)

\* The longest text of a numeric argument that is enumerated.
MaxNumberLen == 3

NumberChars == {"1", "2", "-", " ", "a"}

\* The texts that start with a digit or "-", and some around "Infinity".
NumberTexts ==
  { t \in UNION { [1..n -> NumberChars] : n \in 1..MaxNumberLen } : IsDigit(t[1]) \/ t[1] = "-" }
  \cup { <<"-">> \o InfinityText,
         <<"-">> \o InfinityText \o <<" ">>,
         <<"-">> \o SubSeq(InfinityText, 1, 7),
         <<"1">> \o InfinityText }

CallWithArgument(text, more) ==
  <<"{", "f", "(">> \o text \o (IF more THEN <<",", "1", ")", "}">> ELSE <<")", "}">>)

\* parseTemplate(template) for the template with that argument
ParseArgument(text, more) ==
  /\ probe' = [op |-> "parseTemplate", args |-> <<text, more>>,
               result |-> parseTemplate(CallWithArgument(text, more)), threw |-> FALSE]
  /\ UNCHANGED <<cacheVars, callVars, parseVars, ingestVars, logVars>>

(***************************************************************************)
(* parseTemplate on a template and on the same template with one           *)
(* whitespace character inserted                                           *)
(***************************************************************************)

\* Templates with numeric, quoted, bare-variable and nested-call arguments:
\*   {f(12,ab)}      {f("a b",g(x))}      {f(g(1),"s")}
\*   {f(-1)}      {f(a,1,"b")}      {if(n,g(),2)}
WhitespaceTemplates ==
  { <<"{", "f", "(", "1", "2", ",", "a", "b", ")", "}">>,
    <<"{", "f", "(", "\"", "a", " ", "b", "\"", ",", "g", "(", "x", ")", ")", "}">>,
    <<"{", "f", "(", "g", "(", "1", ")", ",", "\"", "s", "\"", ")", "}">>,
    <<"{", "f", "(", "-", "1", ")", "}">>,
    <<"{", "f", "(", "a", ",", "1", ",", "\"", "b", "\"", ")", "}">>,
    <<"{", "i", "f", "(", "n", ",", "g", "(", ")", ",", "2", ")", "}">> }

WhitespaceChars == {" ", "\t", "\n"}

\* The template with the character w put before its k-th character.
InsertAt(template, k, w) ==
  SubSeq(template, 1, k - 1) \o <<w>> \o SubSeq(template, k, Len(template))

\* parseTemplate(template) and parseTemplate(InsertAt(template, k, w))
ParseSpaced(template, k, w) ==
  /\ probe' = [op |-> "parseTemplate, spaced", args |-> <<template, k, w>>,
               result |-> [plain |-> parseTemplate(template),
                           spaced |-> parseTemplate(InsertAt(template, k, w))],
               threw |-> FALSE]
  /\ UNCHANGED <<cacheVars, callVars, parseVars, ingestVars, logVars>>

(***************************************************************************)
(* parseTemplate on literal text with backslashes and braces, and on       *)
(* templates "{f(\"" body "\")}" with one quoted argument                  *)
(***************************************************************************)

\* The longest text, and the longest body of a quoted argument.
MaxEscapeLen == 4

TextChars == {"a", "\\", "{"}
QuoteChars == {"a", "\\", "\""}

StringsOver(chars) == UNION { [1..n -> chars] : n \in 0..MaxEscapeLen }

QuotedCall(body) == <<"{", "f", "(", "\"">> \o body \o <<"\"", ")", "}">>

\* parseTemplate(template), and the locals of its loop after each character
ParseEscaped(family, body) ==
  /\ LET template == IF family = "quote" THEN QuotedCall(body) ELSE body
     IN  probe' = [op |-> "parseTemplate, escapes", args |-> <<family, body, template>>,
                   result |-> parseTemplate(template), threw |-> FALSE]
  /\ UNCHANGED <<cacheVars, callVars, parseVars, ingestVars, logVars>>

(***************************************************************************)
(* The functions of baseValues called on the values of a bounded universe  *)
(***************************************************************************)

\* The most arguments of a call, the largest position given to cases, and
\* the most values it chooses among.
MaxArgs == 2
MaxPosition == 7
MaxCases == 3

\* Safe values as arguments: strings, numbers, a boolean, arrays, a
\* function, a container.
ArgValues ==
  { Str(<<>>), Str(<<"a">>), Str(<<"2">>), Num(0), Num(2), Bool(TRUE),
    Arr(<<>>), Arr(<<Str(<<"a">>), Num(1)>>), Fn(<<"n", "i", "l">>), Container(NoFields) }

ArgLists == UNION { [1..n -> ArgValues] : n \in 0..MaxArgs }

\* The positions given to cases: integers, and values that are not numbers.
Positions ==
  { Num(p) : p \in (0 - MaxPosition)..MaxPosition }
  \cup { Str(<<>>), Str(<<"2">>), Str(<<"a">>), Bool(TRUE), Arr(<<>>) }

CaseValues == <<Str(<<"a">>), Str(<<"b">>), Str(<<"c">>), Str(<<"d">>), Str(<<"e">>)>>

\* baseValues[name](...args), called directly
CallBuiltin(name, args) ==
  /\ probe' = [op |-> "baseValues", name |-> name, args |-> args,
               result |-> IF CallThrows(name, args) THEN Null ELSE CallBase(name, args),
               threw |-> CallThrows(name, args)]
  /\ UNCHANGED <<cacheVars, callVars, parseVars, ingestVars, logVars>>

(***************************************************************************)
(* renderTemplate with parseTemplate taken one turn of its loop at a time: *)
(* input is what the loop has read of the template of the call             *)
(***************************************************************************)

\* The loop does not move on: the character stays unread.
ConsumedNone(chars, char) == chars

\* What the loop has read once it has taken char.
Consumed(chars, char) == Append(chars, char)

\* const chars = [...str], and the locals before the loop
ParseBegin(p) ==
  /\ call[p].pc = "parse"
  /\ MayRun(p)
  /\ input' = <<>>
  /\ parser' = NoParse
  /\ Step(p, [call[p] EXCEPT !.pc = "parseLoop"])
  /\ UNCHANGED <<cacheVars, ingestVars, probeVars, logVars>>

\* for (const [i, char] of chars.entries()): the turn of the next character;
\* an error thrown in it rejects the call
ParseTurn(p) ==
  /\ call[p].pc = "parseLoop"
  /\ MayRun(p)
  /\ Len(input) < Len(call[p].template)
  /\ LET char == call[p].template[Len(input) + 1]
         st == ParseChar(parser.st, char, Len(input))
     IN  /\ input' = Consumed(input, char)
         /\ parser' = [parser EXCEPT !.st = st]
         /\ IF st.error # NoError THEN Step(p, RejectParse(call[p], st.error))
            ELSE Step(p, call[p])
  /\ UNCHANGED <<cacheVars, ingestVars, probeVars, logVars>>

\* The end of the loop, the checks after it, and the return of the result
ParseReturn(p) ==
  /\ call[p].pc = "parseLoop"
  /\ MayRun(p)
  /\ Len(input) >= Len(call[p].template)
  /\ LET st == ParseEnd(parser.st)
     IN  /\ parser' = [parser EXCEPT !.st = st, !.phase = "parsed"]
         /\ IF st.error # NoError THEN Step(p, RejectParse(call[p], st.error))
            ELSE Step(p, [call[p] EXCEPT !.pc = "evict", !.parseResult = st.result])
  /\ UNCHANGED <<input, cacheVars, ingestVars, probeVars, logVars>>

\* Templates of that specification: the empty one, text around a call,
\* nested calls, one whose callable returns an unsafe value, and three
\* that do not parse:
\*   (empty)      Hi {upper(n)}!      {list(upper(n),n,not(nil()))}
\*   a{obj()}b      a{upper(      {f(1a)}b      {a(b}
LoopTemplates ==
  { <<>>,
    <<"H", "i", " ", "{", "u", "p", "p", "e", "r", "(", "n", ")", "}", "!">>,
    <<"{", "l", "i", "s", "t", "(", "u", "p", "p", "e", "r", "(", "n", ")", ",", "n", ",",
      "n", "o", "t", "(", "n", "i", "l", "(", ")", ")", ")", "}">>,
    <<"a", "{", "o", "b", "j", "(", ")", "}", "b">>,
    <<"a", "{", "u", "p", "p", "e", "r", "(">>,
    <<"{", "f", "(", "1", "a", ")", "}", "b">>,
    <<"{", "a", "(", "b", "}">> }

(***************************************************************************)
(* parseTemplate, turn by turn, on the templates "{a(" body ")}": a call   *)
(* whose argument list is every text over the characters of arguments      *)
(***************************************************************************)

\* The longest body of such an argument list.
MaxBody == 5

\* Two identifier characters, a digit, the quote, a blank, and the
\* characters that open, close and separate.
CallChars == {"a", "x", "1", "\"", " ", "(", ")", ","}

CallBodies == UNION { [1..n -> CallChars] : n \in 0..MaxBody }

CallTemplate(body) == <<"{", "a", "(">> \o body \o <<")", "}">>

\* A call of renderTemplate that is about to enter the loop of the parser.
EnteringLoop(template) == [IdleCall EXCEPT !.pc = "parseLoop", !.template = template]

(***************************************************************************)
(* log() of the Logs plugin.  The config has two log channels, in this     *)
(* order: "plain", whose logs go to the channel itself, and "cat", which   *)
(* has opts.categorize and whose logs go to the category thread "thread".  *)
(* Time is counted in minutes.  The CooldownManager, the MessageBuffer and *)
(* the poster are used through their calls in log().                       *)
(***************************************************************************)

LogChannels == <<"plain", "cat">>

\* opts.categorize is set
Categorized(channelId) == channelId = "cat"

\* getCategoryThread(...).id
CategoryThread(channelId) == "thread"

\* The ids a cooldown can be keyed by, and the ids that have a buffer.
CooldownKeys == {"plain", "cat", "thread"}
Destinations == {"plain", "thread"}

\* 2 * MINUTES
Cooldown == 2

\* Missing Access / Missing Permissions
MissingAccess == 50001
MissingPermissions == 50013

\* What sendMessage can be rejected with: a Discord API error with one of
\* the two codes or with another, or an error that is no Discord API error.
SendErrors ==
  { [api |-> TRUE, code |-> MissingAccess], [api |-> TRUE, code |-> MissingPermissions],
    [api |-> TRUE, code |-> 0], [api |-> FALSE, code |-> MissingAccess] }

\* The most messages a buffer holds, and the most sends in flight to one destination.
MaxPending == 2
MaxInFlight == 1

\* channelCooldowns.isOnCooldown(key)
isOnCooldown(cooldowns, key) == cooldowns[key] > 0

\* channelCooldowns.setCooldown(key, time)
setCooldown(cooldowns, key, time) == [cooldowns EXCEPT ![key] = time]

NoBuffer == [exists |-> FALSE, channelId |-> "", pending |-> 0]

\* pluginData.state before any log, and no log() call in progress.
NoLogs ==
  [cooldowns |-> [k \in CooldownKeys |-> 0],
   buffers |-> [d \in Destinations |-> NoBuffer],
   sends |-> [d \in Destinations |-> 0],
   pc |-> "idle", index |-> 1, included |-> {}, delivered |-> {}]

RECURSIVE NextChannel(_, _, _)
\* The loop from the index-th channel on, up to the first await: channels
\* that are on cooldown (line 92) or that do not take this log type (lines
\* 93-94) are skipped with continue; the result is the index of the channel
\* that reaches line 95, or one past the last.
NextChannel(cooldowns, included, index) ==
  IF index > Len(LogChannels) THEN index
  ELSE IF isOnCooldown(cooldowns, LogChannels[index]) THEN NextChannel(cooldowns, included, index + 1)
  ELSE IF LogChannels[index] \notin included THEN NextChannel(cooldowns, included, index + 1)
  ELSE index

\* The log() call after the loop has run from index on: suspended at an
\* await of the channel it reached, or returned.
LoopFrom(l, index) ==
  LET next == NextChannel(l.cooldowns, l.included, index)
  IN  IF next > Len(LogChannels) THEN [l EXCEPT !.pc = "idle", !.index = 1]
      ELSE [l EXCEPT !.pc = "await", !.index = next]

\* log(pluginData, type, data, exclusionData): included are the channels
\* whose include and exclude lists take the type, delivered those for which
\* shouldExclude is false, a message is formatted and, with categorize, a
\* category thread is found.
LogCall(included, delivered) ==
  /\ logs.pc = "idle"
  /\ logs' = LoopFrom([logs EXCEPT !.included = included, !.delivered = delivered], 1)
  /\ UNCHANGED <<cacheVars, callVars, parseVars, ingestVars, probeVars>>

\* Lines 95-161 after the awaits: the routing to the category thread, the
\* creation of the buffer of the destination (its consume closes over
\* channelId as it is then) and the push; then the loop goes on.
LogResume ==
  /\ logs.pc = "await"
  /\ LET channelId == LogChannels[logs.index]
         routed == IF Categorized(channelId) THEN CategoryThread(channelId) ELSE channelId
         buffer == IF logs.buffers[routed].exists THEN logs.buffers[routed]
                   ELSE [exists |-> TRUE, channelId |-> routed, pending |-> 0]
     IN  IF channelId \notin logs.delivered THEN logs' = LoopFrom(logs, logs.index + 1)
         ELSE /\ buffer.pending < MaxPending
              /\ logs' = LoopFrom([logs EXCEPT !.buffers[routed] =
                                     [buffer EXCEPT !.pending = @ + 1]],
                                  logs.index + 1)
  /\ UNCHANGED <<cacheVars, callVars, parseVars, ingestVars, probeVars>>

\* The timeout of a MessageBuffer: consume(part) calls sendMessage with what
\* the buffer holds.
Flush(d) ==
  /\ logs.buffers[d].pending > 0
  /\ logs.sends[d] < MaxInFlight
  /\ logs' = [logs EXCEPT !.buffers[d].pending = 0, !.sends[d] = @ + 1]
  /\ UNCHANGED <<cacheVars, callVars, parseVars, ingestVars, probeVars>>

\* sendMessage resolves.
SendDone(d) ==
  /\ logs.sends[d] > 0
  /\ logs' = [logs EXCEPT !.sends[d] = @ - 1]
  /\ UNCHANGED <<cacheVars, callVars, parseVars, ingestVars, probeVars>>

\* err.code === 50001 || err.code === 50013, for a Discord API error
IsAccessError(err) == err.api /\ err.code \in {MissingAccess, MissingPermissions}

\* sendMessage rejects with err: the catch of lines 135-150.
SendError(d, err) ==
  /\ logs.sends[d] > 0
  /\ logs' = [logs EXCEPT !.sends[d] = @ - 1,
                          !.cooldowns = IF IsAccessError(err)
                                        THEN setCooldown(@, logs.buffers[d].channelId, Cooldown)
                                        ELSE @]
  /\ UNCHANGED <<cacheVars, callVars, parseVars, ingestVars, probeVars>>

\* A minute passes: every cooldown has a minute less to run.
Minute ==
  /\ \E k \in CooldownKeys : logs.cooldowns[k] > 0
  /\ logs' = [logs EXCEPT !.cooldowns = [k \in CooldownKeys |-> IF @[k] > 0 THEN @[k] - 1 ELSE 0]]
  /\ UNCHANGED <<cacheVars, callVars, parseVars, ingestVars, probeVars>>

(***************************************************************************)
(* StartThreadAction.apply of the Automod plugin.  A context has or lacks  *)
(* a message and a user, and its message is in one of three channels: a    *)
(* text channel, a news channel (which has threads too), and one that the  *)
(* fetch does not find.  active is the number of threads of the text       *)
(* channel that the bot owns and that are neither deleted nor archived.    *)
(***************************************************************************)

\* The most contexts of a call, the largest limit_per_channel, and the most
\* threads the text channel holds before the call.
MaxContexts == 2
MaxLimit == 1
MaxActive == 1

ChannelIds == {"text", "news", "gone"}

Contexts == [message : BOOLEAN, user : BOOLEAN, channel : ChannelIds]

ContextLists == UNION { [1..n -> Contexts] : n \in 0..MaxContexts }

\* The value the promise of the filter callback resolves to: the checks of
\* the context (lines 70-81).
PassesChecks(c, limit, active) ==
  IF ~c.message \/ ~c.user THEN FALSE
  ELSE IF c.channel # "text" THEN FALSE
  ELSE IF limit > 0 /\ active >= limit THEN FALSE
  ELSE TRUE

\* contexts.filter(async (c) => ...): filter tests what the callback
\* returns, and an async function returns a promise, which is truthy
\* whatever it resolves to.
KeptByFilter(c, limit, active) == TRUE

\* Promise.all(contexts.filter(...)): the contexts that are kept
Threads(contexts, limit, active) ==
  SelectSeq(contexts, LAMBDA c : KeptByFilter(c, limit, active))

RECURSIVE CreateThreads(_, _, _, _)
\* for (const c of threads), from the k-th on: the contexts a thread has
\* been created for, and whether the loop threw.  c.message!.channel_id
\* throws without a message, channel.threads throws on a channel that was
\* not fetched; lenient tells whether userToTemplateSafeUser (outside of
\* this source) returns for a missing user or throws, and refused whether
\* the creation is rejected, which ends the call.
CreateThreads(threads, k, lenient, refused) ==
  IF k > Len(threads) THEN [created |-> <<>>, threw |-> FALSE]
  ELSE LET c == threads[k] IN
       IF ~c.message THEN [created |-> <<>>, threw |-> TRUE]
       ELSE IF ~c.user /\ ~lenient THEN [created |-> <<>>, threw |-> TRUE]
       ELSE IF c.channel = "gone" THEN [created |-> <<>>, threw |-> TRUE]
       ELSE IF refused THEN [created |-> <<>>, threw |-> FALSE]
       ELSE LET rest == CreateThreads(threads, k + 1, lenient, refused)
            IN  [created |-> <<c>> \o rest.created, threw |-> rest.threw]

\* StartThreadAction.apply({ contexts, actionConfig })
Apply(contexts, limit, active, lenient, refused) ==
  /\ probe' = [op |-> "StartThreadAction.apply",
               args |-> <<contexts, limit, active>>,
               result |-> CreateThreads(Threads(contexts, limit, active), 1, lenient, refused).created,
               threw |-> CreateThreads(Threads(contexts, limit, active), 1, lenient, refused).threw]
  /\ UNCHANGED <<cacheVars, callVars, parseVars, ingestVars, logVars>>

(***************************************************************************)
(* add, sub, mul and div called on lists of numbers and strings            *)
(***************************************************************************)

\* The most arguments of such a call.
MaxOperands == 3

\* Numbers, and strings that are a number, are none, or are empty.
ArithValues ==
  { Num(0), Num(2), Num(0 - 3), Str(<<"2">>), Str(<<"a">>), Str(<<>>) }

ArithLists == UNION { [1..n -> ArithValues] : n \in 0..MaxOperands }

\* baseValues[name](...args) for one of the four, called directly
CallArithmetic(name, args) ==
  /\ probe' = [op |-> "baseValues", name |-> name, args |-> args,
               result |-> CallArith(name, args), threw |-> FALSE]
  /\ UNCHANGED <<cacheVars, callVars, parseVars, ingestVars, logVars>>

(***************************************************************************)
(* Specifications                                                          *)
(***************************************************************************)
\* Templates for one call at a time:
\*   Hi {upper(n)}!                    {if(not(n),1,concat(n,-21))}{z}
\*   a{obj()}b                         {concat(list(n,obj()),n)}
\*   {upper(nil())}b                   {list(upper(n),n,not(nil()))}
\*   {n(obj())}                        a{upper(
\*   {upper(objs())}                   a{concatArr(n)}
EvalTemplates ==
  { <<"H", "i", " ", "{", "u", "p", "p", "e", "r", "(", "n", ")", "}", "!">>,
    <<"{", "i", "f", "(", "n", "o", "t", "(", "n", ")", ",", "1", ",",
      "c", "o", "n", "c", "a", "t", "(", "n", ",", "-", "2", "1", ")", ")", "}", "{", "z", "}">>,
    <<"a", "{", "o", "b", "j", "(", ")", "}", "b">>,
    <<"{", "c", "o", "n", "c", "a", "t", "(", "l", "i", "s", "t", "(", "n", ",",
      "o", "b", "j", "(", ")", ")", ",", "n", ")", "}">>,
    <<"{", "u", "p", "p", "e", "r", "(", "n", "i", "l", "(", ")", ")", "}", "b">>,
    <<"{", "l", "i", "s", "t", "(", "u", "p", "p", "e", "r", "(", "n", ")", ",", "n", ",",
      "n", "o", "t", "(", "n", "i", "l", "(", ")", ")", ")", "}">>,
    <<"{", "n", "(", "o", "b", "j", "(", ")", ")", "}">>,
    <<"a", "{", "u", "p", "p", "e", "r", "(">>,
    <<"{", "u", "p", "p", "e", "r", "(", "o", "b", "j", "s", "(", ")", ")", "}">>,
    <<"a", "{", "c", "o", "n", "c", "a", "t", "A", "r", "r", "(", "n", ")", "}">> }

\* Values with functions below the top level: in the container o, under the
\* key f, the function that returns its arguments, and in the array s the
\* function that returns a plain object.
PathValues ==
  ObjectAssign(HostValues,
    [k \in {<<"o">>, <<"s">>} |->
       IF k = <<"o">> THEN Container([j \in {<<"f">>} |-> Fn(<<"l", "i", "s", "t">>)])
       ELSE Arr(<<Fn(<<"o", "b", "j">>)>>)])

\* Templates that name those functions by their paths:
\*   {o.f(nil())}x      {list(s.0(n),n)}      {s.0(obj())}      {o.f}      {list(n)}
PathTemplates ==
  { <<"{", "o", ".", "f", "(", "n", "i", "l", "(", ")", ")", "}", "x">>,
    <<"{", "l", "i", "s", "t", "(", "s", ".", "0", "(", "n", ")", ",", "n", ")", "}">>,
    <<"{", "s", ".", "0", "(", "o", "b", "j", "(", ")", ")", "}">>,
    <<"{", "o", ".", "f", "}">>,
    <<"{", "l", "i", "s", "t", "(", "n", ")", "}">> }

\* Values in which the host has a function of its own (the one that returns
\* nothing) under the name of a built-in.
HostOverride == ObjectAssign(HostValues, [k \in {<<"u", "p", "p", "e", "r">>} |-> Fn(<<"n", "i", "l">>)])

\* The values of those calls: the host's, those with the name of a built-in, or none.
EvalValues == {HostValues, HostOverride, NoFields}

Init ==
  /\ templateCache = <<>>
  /\ insertedBefore = {}
  /\ running = 0
  /\ call = [p \in Calls |-> IdleCall]
  /\ input = <<>>
  /\ parser = NoParse
  /\ container = [exists |-> FALSE, fields |-> NoFields]
  /\ ingest = NoIngest
  /\ probe = NoProbe
  /\ logs = NoLogs

\* Concurrent renderTemplate calls over the shared cache.
Next ==
  \E p \in Calls :
    \/ \E t \in CacheTemplates : RenderTemplateCall(p, t, HostValues, TRUE)
    \/ Lookup(p)
    \/ Parse(p)
    \/ Evict(p)
    \/ Insert(p)
    \/ RenderLoop(p)
    \/ ResumePart(p)
    \/ Evaluate(p)
    \/ EvalArgs(p)
    \/ ResumeArg(p)
    \/ CallReturn(p)

Spec == Init /\ [][Next]_vars

\* One renderTemplate call at a time, on templates with nested calls.
NextEval ==
  \E p \in {1} :
    \/ \E t \in EvalTemplates, v \in EvalValues, b \in BOOLEAN : RenderTemplateCall(p, t, v, b)
    \/ Lookup(p)
    \/ Parse(p)
    \/ Evict(p)
    \/ Insert(p)
    \/ RenderLoop(p)
    \/ ResumePart(p)
    \/ Evaluate(p)
    \/ EvalArgs(p)
    \/ ResumeArg(p)
    \/ CallReturn(p)

SpecEval == Init /\ [][NextEval]_vars

\* One renderTemplate call at a time, on the templates with paths.
NextPath ==
  \E p \in {1} :
    \/ \E t \in PathTemplates, b \in BOOLEAN : RenderTemplateCall(p, t, PathValues, b)
    \/ Lookup(p)
    \/ Parse(p)
    \/ Evict(p)
    \/ Insert(p)
    \/ RenderLoop(p)
    \/ ResumePart(p)
    \/ Evaluate(p)
    \/ EvalArgs(p)
    \/ ResumeArg(p)
    \/ CallReturn(p)

SpecPath == Init /\ [][NextPath]_vars

\* One parseTemplate call on every string up to MaxLen, and the rendering of its result.
NextParse ==
  \/ \E char \in ParseChars : ReadChar(char)
  \/ EndOfInput
  \/ \E values \in {NoFields, HostValues} : RenderParsed(values)

SpecParse == Init /\ [][NextParse]_vars

\* Constructions of, and ingestions into, one container.
NextIngest ==
  \/ \E data \in DataObjects : NewContainer(data)
  \/ \E data \in DataObjects : IngestData(data)

SpecIngest == Init /\ [][NextIngest]_vars

\* parseTemplate on every numeric argument of the enumeration.
NextNumber == \E text \in NumberTexts, more \in BOOLEAN : ParseArgument(text, more)

SpecNumber == Init /\ [][NextNumber]_vars

\* parseTemplate with a whitespace character at every place of every template.
NextWhitespace ==
  \E template \in WhitespaceTemplates, w \in WhitespaceChars :
    \E k \in 1..(Len(template) + 1) : ParseSpaced(template, k, w)

SpecWhitespace == Init /\ [][NextWhitespace]_vars

\* parseTemplate on every text and on every quoted argument of the enumeration.
NextEscape ==
  \/ \E body \in StringsOver(TextChars) : ParseEscaped("text", body)
  \/ \E body \in StringsOver(QuoteChars) : ParseEscaped("quote", body)

SpecEscape == Init /\ [][NextEscape]_vars

\* Every modelled built-in on every list of arguments, and cases on every
\* position and every number of values.
NextBuiltin ==
  \/ \E name \in BaseNames, args \in ArgLists : CallBuiltin(name, args)
  \/ \E position \in Positions, n \in 0..MaxCases :
       CallBuiltin(<<"c", "a", "s", "e", "s">>, <<position>> \o SubSeq(CaseValues, 1, n))

SpecBuiltin == Init /\ [][NextBuiltin]_vars

\* The steps of a renderTemplate call after its start, the parser turn by turn.
LoopStep(p) ==
  \/ Lookup(p)
  \/ ParseBegin(p)
  \/ ParseTurn(p)
  \/ ParseReturn(p)
  \/ Evict(p)
  \/ Insert(p)
  \/ RenderLoop(p)
  \/ ResumePart(p)
  \/ Evaluate(p)
  \/ EvalArgs(p)
  \/ ResumeArg(p)
  \/ CallReturn(p)

\* One renderTemplate call at a time.
NextLoop ==
  \/ \E t \in LoopTemplates : RenderTemplateCall(1, t, HostValues, TRUE)
  \/ LoopStep(1)

\* The parser is a synchronous loop, the continuation of a settled await is
\* run by the event loop, and every callable of the model returns: a call
\* that can take a step takes it.
SpecLoop == Init /\ [][NextLoop]_vars /\ WF_vars(LoopStep(1))

\* isTemplateSafeValue on every nested value.
NextDepth == \E value \in NestedValues : CheckValue(value)

SpecDepth == Init /\ [][NextDepth]_vars

\* The first call has been given one of the templates and is at the loop of
\* the parser; nothing else has happened.
InitCalls ==
  /\ templateCache = <<>>
  /\ insertedBefore = {}
  /\ running = 1
  /\ \E body \in CallBodies :
       call = [p \in Calls |-> IF p = 1 THEN EnteringLoop(CallTemplate(body)) ELSE IdleCall]
  /\ input = <<>>
  /\ parser = NoParse
  /\ container = [exists |-> FALSE, fields |-> NoFields]
  /\ ingest = NoIngest
  /\ probe = NoProbe
  /\ logs = NoLogs

\* The turns of the parser on that template, up to its return or its error.
NextCalls == ParseTurn(1) \/ ParseReturn(1)

SpecCalls == InitCalls /\ [][NextCalls]_vars

\* Templates with text around a call: the longest argument list of the call,
\* its characters, and the text before and after the expression (none, a
\* letter, a letter with an escaped brace, an empty expression, a lone
\* backslash).
MaxInner == 4

InnerChars == {"x", "1", "\"", "(", ")", ","}

InnerBodies == UNION { [1..n -> InnerChars] : n \in 0..MaxInner }

Surroundings == { <<>>, <<"a">>, <<"a", "\\", "{">>, <<"{", "}">>, <<"\\">> }

FragmentTemplates ==
  { lead \o CallTemplate(body) \o trail :
      lead \in Surroundings, body \in InnerBodies, trail \in Surroundings }

\* The first call has been given one of those templates and is at the loop
\* of the parser.
InitFragments ==
  /\ templateCache = <<>>
  /\ insertedBefore = {}
  /\ running = 1
  /\ \E template \in FragmentTemplates :
       call = [p \in Calls |-> IF p = 1 THEN EnteringLoop(template) ELSE IdleCall]
  /\ input = <<>>
  /\ parser = NoParse
  /\ container = [exists |-> FALSE, fields |-> NoFields]
  /\ ingest = NoIngest
  /\ probe = NoProbe
  /\ logs = NoLogs

NextFragments == ParseTurn(1) \/ ParseReturn(1)

SpecFragments == InitFragments /\ [][NextFragments]_vars

\* log() calls, the flushes of the buffers, the outcomes of the sends, and time.
NextLog ==
  \/ \E included \in SUBSET {"plain", "cat"}, delivered \in SUBSET {"plain", "cat"} :
       LogCall(included, delivered)
  \/ LogResume
  \/ \E d \in Destinations : Flush(d)
  \/ \E d \in Destinations : SendDone(d)
  \/ \E d \in Destinations, err \in SendErrors : SendError(d, err)
  \/ Minute

SpecLog == Init /\ [][NextLog]_vars

\* StartThreadAction.apply on every list of contexts, limit and number of
\* active threads.
NextThread ==
  \E contexts \in ContextLists, limit \in 0..MaxLimit, active \in 0..MaxActive,
     lenient \in BOOLEAN, refused \in BOOLEAN :
    Apply(contexts, limit, active, lenient, refused)

SpecThread == Init /\ [][NextThread]_vars

\* add, sub, mul and div on every list of up to MaxOperands arguments.
NextArith == \E name \in ArithNames, args \in ArithLists : CallArithmetic(name, args)

SpecArith == Init /\ [][NextArith]_vars

\* isTemplateSafeValue on every value of the universe.
NextSafe == \E value \in ProbeValues : CheckValue(value)

SpecSafe == Init /\ [][NextSafe]_vars

(***************************************************************************)
(* Claims about the template cache (under Spec)                            *)
(***************************************************************************)

\* What parsing the template of call c afresh and rendering the result gives.
FreshParse(c) == parseTemplate(c.template)
FreshRender(c) == RenderParts(FreshParse(c).result, c.values, 1)

Settled(c) == c.pc \in {"done", "failed"}

\* C1: after any sequence of renderTemplate calls (hits, misses, failing
\* parses, in any order) the template cache holds at most
\* TEMPLATE_CACHE_SIZE entries.
C1_CacheBounded == MapSize(templateCache) <= TEMPLATE_CACHE_SIZE

\* The cache is full, another template has been cached and evicted since,
\* a call was served from the cache and a call failed to parse.
C1_Witness ==
  /\ MapSize(templateCache) = TEMPLATE_CACHE_SIZE
  /\ \E p \in Calls : /\ call[p].pc = "done"
                      /\ ~call[p].hit
                      /\ call[p].template \notin MapKeys(templateCache)
  /\ \E p \in Calls : \/ call[p].pc = "done" /\ call[p].hit
                      \/ call[p].pc = "failed" /\ call[p].outcome.parseError # NoError

\* C2: eviction is first-in-first-out and independent of accesses.  Every
\* step removes at most one key from the cache; a key is removed only by the
\* eviction of a call that missed, with the cache at capacity, and it is the
\* key inserted before every other key present; such an eviction at capacity
\* removes exactly one key, and the insertion that follows puts the new key
\* last; the lookup of a call (a hit included) leaves the cache as it is.
C2_FifoStep ==
  LET removed == MapKeys(templateCache) \ MapKeys(templateCache')
  IN  /\ Cardinality(removed) <= 1
      /\ \A k \in removed :
           /\ MapSize(templateCache) >= TEMPLATE_CACHE_SIZE
           /\ \E p \in Calls : call[p].pc = "evict" /\ ~call[p].hit /\ call'[p].pc = "insert"
           /\ \A j \in MapKeys(templateCache) \ {k} : <<k, j>> \in insertedBefore
           /\ MapSize(templateCache') = MapSize(templateCache) - 1
      /\ \A p \in Calls :
           /\ call[p].pc = "evict" /\ call'[p].pc = "insert"
                /\ MapSize(templateCache) >= TEMPLATE_CACHE_SIZE
              => Cardinality(removed) = 1
           /\ call[p].pc = "lookup" /\ call'[p].pc # "lookup"
              => templateCache' = templateCache
           /\ call[p].pc = "insert" /\ call'[p].pc = "render"
              => /\ removed = {}
                 /\ templateCache'[Len(templateCache')].key = call[p].template
                 /\ SubSeq(templateCache', 1, Len(templateCache') - 1) = templateCache

\* C2: every step of the system is such a step.
C2_Fifo == [][C2_FifoStep]_vars

\* A call was served a template from the cache, and that template has been
\* evicted since, the cache being full.
C2_Witness ==
  /\ MapSize(templateCache) = TEMPLATE_CACHE_SIZE
  /\ \E p \in Calls : /\ call[p].pc = "done"
                      /\ call[p].hit
                      /\ call[p].template \notin MapKeys(templateCache)

\* C3: cache transparency.  Every cache entry maps a template string to the
\* result parseTemplate gives for that string, and every settled call ended
\* as parsing its template afresh and rendering the result ends: with the
\* same output, or with the same failure, served from the cache or not.
C3_Transparent ==
  /\ \A k \in 1..Len(templateCache) :
       /\ parseTemplate(templateCache[k].key).error = NoError
       /\ templateCache[k].value = parseTemplate(templateCache[k].key).result
  /\ \A p \in Calls :
       Settled(call[p]) =>
         IF FreshParse(call[p]).error # NoError
         THEN call[p].outcome = [NoOutcome EXCEPT !.status = "rejected",
                                                  !.parseError = FreshParse(call[p]).error]
         ELSE IF FreshRender(call[p]).error # NoEvalError
         THEN call[p].outcome = [NoOutcome EXCEPT !.status = "rejected",
                                                  !.evalError = FreshRender(call[p]).error]
         ELSE call[p].outcome = [NoOutcome EXCEPT !.status = "fulfilled",
                                                  !.output = FreshRender(call[p]).output]

\* A template with an expression was rendered from the cache, while the
\* cache held other entries before it.
C3_Witness ==
  \E p \in Calls :
    /\ call[p].pc = "done"
    /\ call[p].hit
    /\ call[p].outcome.output = <<"A", "D", "A">>
    /\ MapHas(templateCache, call[p].template)
    /\ templateCache[1].key # call[p].template

\* C4: the cache step of a call (lookup, parse, evict, insert) is never
\* interleaved with the cache step of another call: at most one call is
\* inside its cache step, the call about to insert has evicted for a key
\* the cache does not hold and has room for it, no key is cached twice and
\* the cache never exceeds its capacity.
CacheStep == {"lookup", "parse", "evict", "insert"}

C4_Serialized ==
  /\ Cardinality({p \in Calls : call[p].pc \in CacheStep}) <= 1
  /\ \A p \in Calls : call[p].pc \in CacheStep => running = p
  /\ \A p \in Calls : call[p].pc = "insert" =>
       /\ call[p].template \notin MapKeys(templateCache)
       /\ MapSize(templateCache) < TEMPLATE_CACHE_SIZE
  /\ \A j, k \in 1..Len(templateCache) : j # k => templateCache[j].key # templateCache[k].key
  /\ MapSize(templateCache) <= TEMPLATE_CACHE_SIZE

\* Two calls on the same template are suspended at an await, the first of
\* them having missed and the second having hit, the cache being full.
C4_Witness ==
  /\ MapSize(templateCache) = TEMPLATE_CACHE_SIZE
  /\ \E p, q \in Calls :
       /\ p # q
       /\ call[p].template = call[q].template
       /\ call[p].pc \in AwaitPoints /\ ~call[p].hit
       /\ call[q].pc \in AwaitPoints /\ call[q].hit
       /\ Cardinality({k \in 1..Len(templateCache) :
                         templateCache[k].key = call[p].template}) = 1

(***************************************************************************)
(* Claims about the evaluation (under SpecEval)                            *)
(***************************************************************************)

IsPrefix(s, t) == Len(s) <= Len(t) /\ SubSeq(t, 1, Len(s)) = s

\* The call is inside renderParsedTemplate.
Rendering(c) == c.pc \in {"render", "evaluate", "args"} \cup AwaitPoints

\* C5: within one render call evaluation is strictly sequential.  The
\* callables are invoked in the order in which a left-to-right, innermost
\* first walk of the template meets them; a callable is invoked only when
\* every one of its arguments has been evaluated, in order; an activation
\* that waits for an argument waits for the one nested activation that
\* evaluates that argument, the earlier arguments being evaluated and the
\* later ones not started; the part being evaluated is the one the loop over
\* the parts is at; and at most one callable is in flight.
C5_Sequential ==
  \A p \in Calls :
    LET c == call[p]
        n == Len(c.frames)
    IN  Rendering(c) =>
          /\ IsPrefix(c.trace, RenderParts(c.parseResult, c.values, 1).calls)
          /\ n > 0 => c.frames[1].node = c.parseResult[c.partIdx]
          /\ \A k \in 1..n :
               LET f == c.frames[k] IN
                 /\ Len(f.args) = f.argIdx - 1
                 /\ f.invoked => /\ k = n
                                 /\ c.pc = "awaitCall"
                                 /\ Len(f.args) = Len(f.node.args)
                 /\ k < n => /\ f.argIdx <= Len(f.node.args)
                             /\ c.frames[k + 1].node = f.node.args[f.argIdx]
          /\ Cardinality({k \in 1..n : c.frames[k].invoked}) <= 1

C5_CompleteOrder ==
  \A p \in Calls :
    call[p].pc = "done" => call[p].trace = FreshRender(call[p]).calls

\* C5: evaluation is sequential at every point of a render call, and a
\* completed call has invoked its callables in the order of the walk.
C5_Theorem == C5_Sequential /\ C5_CompleteOrder

\* A nested callable, the third argument of its caller, is in flight, after
\* the callable in the first argument has returned.
C5_Witness ==
  \E p \in Calls :
    /\ call[p].pc = "awaitCall"
    /\ Len(call[p].frames) = 2
    /\ call[p].frames[1].argIdx = 3
    /\ call[p].frames[2].invoked
    /\ Len(call[p].frames[2].args) = 2
    /\ Len(call[p].trace) = 2

\* C6: the output of render is the concatenation, in template order, of the
\* string form of every element of the parsed template: a literal fragment
\* gives itself, an expression node the string form of its value.
ElementString(part, values) ==
  IF part.kind = "text" THEN part.text ELSE ToStr(EvaluateVar(part, values).value)

ElementStrings(parts, values, n) == Flatten([k \in 1..n |-> ElementString(parts[k], values)])

C6_Concatenation ==
  \A p \in Calls :
    LET c == call[p] IN
      /\ Rendering(c) => c.result = ElementStrings(c.parseResult, c.values, c.partIdx - 1)
      /\ c.pc = "done" =>
           c.outcome.output = ElementStrings(c.parseResult, c.values, Len(c.parseResult))

\* "Hi {upper(n)}!" has been rendered to "Hi ADA!".
C6_Witness ==
  \E p \in Calls :
    /\ call[p].pc = "done"
    /\ Len(call[p].parseResult) = 3
    /\ call[p].outcome.output = <<"H", "i", " ", "A", "D", "A", "!">>

\* C8: a render call that hits a parse error or an unsafe-value error ends
\* in failure and returns no string: its promise is rejected, whatever
\* output it had accumulated before the failure.
C8_NoPartialOutput ==
  \A p \in Calls :
    LET c == call[p] IN
      /\ Settled(c) /\ (FreshParse(c).error # NoError \/ FreshRender(c).error # NoEvalError)
         => c.pc = "failed"
      /\ c.pc = "failed" => c.outcome.status = "rejected" /\ c.outcome.output = <<>>
      /\ c.pc = "done" => c.outcome.status = "fulfilled"

\* A call failed on an unsafe value after it had accumulated output.
C8_Witness ==
  \E p \in Calls :
    /\ call[p].pc = "failed"
    /\ call[p].result # <<>>
    /\ call[p].outcome.evalError # NoEvalError
    /\ call[p].outcome.status = "rejected"

\* C9: whenever an invoked callable returns a value that is not a Safe Value
\* (a plain object, or an array that holds one), the render fails with an
\* error that names the identifier of that callable; such a value is never
\* stringified into the output nor passed on as an argument.
RECURSIVE HoldsPlainObject(_)
HoldsPlainObject(v) ==
  \/ v.kind = "object"
  \/ v.kind = "arr" /\ \E k \in 1..Len(v.items) : HoldsPlainObject(v.items[k])

C9_UnsafeReturn ==
  \A p \in Calls :
    LET c == call[p] IN
      /\ ~HoldsPlainObject(c.ret)
      /\ \A k \in 1..Len(c.frames) :
           \A j \in 1..Len(c.frames[k].args) : ~HoldsPlainObject(c.frames[k].args[j])
      /\ c.pc = "done" => FreshRender(c).error = NoEvalError
      /\ c.pc = "failed" /\ c.outcome.parseError = NoError =>
           /\ c.frames # <<>>
           /\ Top(c).invoked
           /\ IF CallThrows(Top(c).fn.name, Top(c).args)
              THEN c.outcome.evalError = NotAFunction
              ELSE /\ HoldsPlainObject(CallFn(Top(c).fn.name, Top(c).args))
                   /\ c.outcome.evalError = UnsafeReturn(Top(c).node.identifier)

\* The callable obj, nested in the arguments of list inside concat, returned
\* a plain object, and the call failed naming obj.
C9_Witness ==
  \E p \in Calls :
    /\ call[p].pc = "failed"
    /\ Len(call[p].frames) = 3
    /\ call[p].outcome.evalError = UnsafeReturn(<<"o", "b", "j">>)
    /\ CallFn(Top(call[p]).fn.name, Top(call[p]).args) = PlainObject

(***************************************************************************)
(* Claims about parseTemplate (under SpecParse)                            *)
(***************************************************************************)

RECURSIVE UnescapedBraceFrom(_, _, _)
\* The template has, from index k on, a "{" that no backslash escapes.
UnescapedBraceFrom(t, k, escaped) ==
  IF k > Len(t) THEN FALSE
  ELSE IF escaped THEN UnescapedBraceFrom(t, k + 1, FALSE)
  ELSE IF t[k] = "\\" THEN UnescapedBraceFrom(t, k + 1, TRUE)
  ELSE t[k] = "{" \/ UnescapedBraceFrom(t, k + 1, FALSE)

HasExpression(t) == UnescapedBraceFrom(t, 1, FALSE)

HasChar(t, char) == \E k \in 1..Len(t) : t[k] = char

\* parseTemplate succeeded on the input, and its result rendered to the input.
RoundTrips ==
  /\ parser.phase = "parsed" => parser.st.error = NoError
  /\ parser.phase = "rendered" => parser.evalError = NoEvalError /\ parser.output = input

\* C7, as claimed: every template string without an expression (without an
\* unescaped "{") renders to exactly itself.
C7_RoundTripAsClaimed == ~HasExpression(input) => RoundTrips

\* C7, amended: every template string that holds neither a "{" nor a
\* backslash renders to exactly itself, whatever the values.
C7_RoundTrip == ~HasChar(input, "{") /\ ~HasChar(input, "\\") => RoundTrips

\* A template of three characters, a "}" and a quote among them, none of
\* them a "{" or a backslash, has been rendered to itself.
C7_Witness ==
  /\ parser.phase = "rendered"
  /\ Len(input) = 3
  /\ HasChar(input, "}") /\ HasChar(input, "\"")
  /\ ~HasChar(input, "{") /\ ~HasChar(input, "\\")
  /\ parser.output = input

(***************************************************************************)
(* Claims about the container (under SpecIngest)                           *)
(***************************************************************************)

\* C10: ingesting data that holds a value that is not safe always fails, and
\* the failure is all-or-nothing: after it the target stores none of the
\* keys of that data, not even the valid keys before the offending one.
C10_AllOrNothing ==
  /\ (\E k \in 1..Len(ingest.data) : HoldsPlainObject(ingest.data[k].value))
     => ingest.status = "threw"
  /\ ingest.status = "threw" =>
       \A k \in 1..Len(ingest.data) :
         LET key == ingest.data[k].key IN
           key \in DOMAIN container.fields =>
             key \in DOMAIN ingest.before /\ container.fields[key] = ingest.before[key]

(***************************************************************************)
(* Claims about isTemplateSafeValue (under SpecSafe)                       *)
(***************************************************************************)

RECURSIVE SafeAsSpecified(_)
\* Safe as the specification has it: absent, a boolean, a number, a string,
\* a callable, a sequence of safe elements, a namespace of safe values.
SafeAsSpecified(v) ==
  CASE v.kind \in {"null", "bool", "num", "str", "fn"} -> TRUE
    [] v.kind = "arr" -> \A k \in 1..Len(v.items) : SafeAsSpecified(v.items[k])
    [] v.kind = "container" -> \A key \in DOMAIN v.fields : SafeAsSpecified(v.fields[key])
    [] OTHER -> FALSE

\* C11: the safe-value check accepts a value if and only if it is absent, a
\* boolean, a number, a string, a callable, a sequence all of whose elements
\* are safe, or a namespace all of whose stored values are safe.
C11_SafeIff ==
  probe.op = "isTemplateSafeValue" => probe.result = Bool(SafeAsSpecified(probe.args[1]))

(***************************************************************************)
(* Claims about the values of a render (under SpecEval)                    *)
(***************************************************************************)

\* C12: when a render includes the built-ins, an entry of the host whose key
\* is the name of a built-in does not override it: in the merged values of
\* the render that key is still the built-in function.
C12_BuiltinsKept ==
  \A p \in Calls :
    call[p].pc # "idle" /\ call[p].includeBaseValues =>
      \A name \in BaseNames : Prop(call[p].values, name) = Fn(name)

\* The node's identifier leads nowhere in the values, or to null or undefined.
Absent(node, values) == get(values, node.identifier) = Null

\* The evaluation of an absent node returns the empty string to what awaits
\* it, without a failure and without the call of any callable.
C13_AbsentStep ==
  \A p \in Calls :
    LET c == call[p] IN
      (c.pc = "evaluate" /\ Absent(Top(c).node, c.values) /\ call'[p] # c) =>
        /\ call'[p].pc \in {"awaitArg", "awaitPart"}
        /\ call'[p].ret = Str(<<>>)
        /\ call'[p].frames = SubSeq(c.frames, 1, Len(c.frames) - 1)
        /\ call'[p].trace = c.trace
        /\ call'[p].outcome = c.outcome

\* An absent node that is a part of the template adds nothing to the output.
C13_AbsentPart ==
  \A p \in Calls :
    LET c == call[p] IN
      (c.pc = "awaitPart" /\ Absent(c.parseResult[c.partIdx], c.values) /\ call'[p] # c) =>
        call'[p].pc = "render" /\ call'[p].result = c.result

\* C13: an expression node whose identifier path does not exist in the
\* values, or resolves to null or undefined, never makes the render fail:
\* it contributes the empty string, whether or not the node has arguments.
C13_AbsentIsEmpty == [][C13_AbsentStep /\ C13_AbsentPart]_vars

\* A part with arguments whose identifier is absent has been evaluated, to
\* the empty string, after some output has been produced.
C13_Witness ==
  \E p \in Calls :
    LET c == call[p] IN
      /\ c.pc = "awaitPart"
      /\ c.result # <<>>
      /\ c.parseResult[c.partIdx].args # <<>>
      /\ Absent(c.parseResult[c.partIdx], c.values)
      /\ c.ret = Str(<<>>)

(***************************************************************************)
(* Claims about the errors of parseTemplate (under SpecParse)              *)
(***************************************************************************)

\* The subkind of ParseError that a thrown TemplateParseError stands for.
\* No message of the parser stands for UnterminatedQuote.
ErrorKind(err) ==
  CASE err.msg = "Unexpected char" -> "UnexpectedChar"
    [] err.msg = "Invalid numeric argument" -> "InvalidNumericArgument"
    [] err.msg = "Unclosed function!" -> "UnclosedFunction"
    [] err.msg = "Unterminated injected variable!" -> "UnterminatedExpression"
    [] OTHER -> "none"

\* The whole input has been read and an expression is still open.
EndsInsideExpression == parser.phase = "parsed" /\ parser.st.inVar

\* ... and so is a quoted string of that expression.
EndsInsideQuote ==
  EndsInsideExpression /\ parser.st.open # <<>> /\ parser.st.open[Len(parser.st.open)].inQuote

CarriesPosition(err) == err.at \in 0..(Len(input) - 1)

DenotesFiniteNumber(text) ==
  LET t == TrimLeft(TrimRight(text))
      u == IF t # <<>> /\ t[1] = "-" THEN Tail(t) ELSE t
  IN  u # <<>> /\ \A k \in 1..Len(u) : IsDigit(u[k])

\* C16: the text of a numeric argument must denote a finite number when it
\* is dumped at "," or ")", otherwise parse fails with
\* InvalidNumericArgument; so every number stored as an argument of a
\* returned parsed template is a finite number.
C16_FiniteNumbers ==
  probe.op = "parseTemplate" =>
    LET r == probe.result IN
      /\ (r.error = NoError) <=> DenotesFiniteNumber(probe.args[1])
      /\ r.error # NoError => ErrorKind(r.error) = "InvalidNumericArgument"
      /\ r.error = NoError =>
           \A k \in 1..Len(r.result[1].args) :
             r.result[1].args[k].kind = "num" => ~NonFinite(r.result[1].args[k])

(***************************************************************************)
(* Claims about whitespace in argument lists (under SpecWhitespace)        *)
(***************************************************************************)

\* The number of the character c among the first n characters of t.
CountChar(t, c, n) == Cardinality({j \in 1..n : t[j] = c})

\* The place before the k-th character of t is inside an argument list
\* (after more "(" than ")") and outside a quoted string (after an even
\* number of quotes).  The templates have no parenthesis inside quotes and
\* no escaped quote.
InArgumentList(t, k) ==
  /\ CountChar(t, "(", k - 1) > CountChar(t, ")", k - 1)
  /\ CountChar(t, "\"", k - 1) % 2 = 0

\* C17: a whitespace character inserted in an argument list outside quotes
\* (before, after or inside a numeric or a bare-variable argument) changes
\* neither whether parse succeeds nor the parsed template it returns.
C17_WhitespaceIgnored ==
  (probe.op = "parseTemplate, spaced" /\ InArgumentList(probe.args[1], probe.args[2])) =>
    /\ (probe.result.spaced.error = NoError) <=> (probe.result.plain.error = NoError)
    /\ probe.result.spaced.result = probe.result.plain.result

(***************************************************************************)
(* Claims about backslash escaping (under SpecEscape)                      *)
(***************************************************************************)

RECURSIVE Unescape(_)
\* The text with every escaping backslash dropped and the character after
\* it kept; a backslash at the very end escapes nothing and is dropped.
Unescape(t) ==
  IF t = <<>> THEN <<>>
  ELSE IF t[1] = "\\" THEN (IF Len(t) >= 2 THEN <<t[2]>> \o Unescape(SubSeq(t, 3, Len(t))) ELSE <<>>)
  ELSE <<t[1]>> \o Unescape(Tail(t))

RECURSIVE FirstUnescapedFrom(_, _, _, _)
\* The index of the first c in t, from k on, that no backslash escapes; 0 when there is none.
FirstUnescapedFrom(t, c, k, escaped) ==
  IF k > Len(t) THEN 0
  ELSE IF escaped THEN FirstUnescapedFrom(t, c, k + 1, FALSE)
  ELSE IF t[k] = "\\" THEN FirstUnescapedFrom(t, c, k + 1, TRUE)
  ELSE IF t[k] = c THEN k
  ELSE FirstUnescapedFrom(t, c, k + 1, FALSE)

FirstUnescaped(t, c) == FirstUnescapedFrom(t, c, 1, FALSE)

\* The parts a literal text gives: none when it is empty.
TextParts(t) == IF t = <<>> THEN <<>> ELSE <<TextPart(t)>>

\* In literal text only a "{" that is not escaped opens an expression, and
\* the text before it is the unescaped text.
EscapeInText(t, r) ==
  LET open == FirstUnescaped(t, "{") IN
    IF open = 0
    THEN r = [error |-> NoError, result |-> TextParts(Unescape(t))]
    ELSE LET st == ReadFrom(ParseInit, SubSeq(t, 1, open), 1)
         IN  st.inVar /\ st.result = TextParts(Unescape(SubSeq(t, 1, open - 1)))

\* In a quoted string only a quote that is not escaped ends the string: the
\* argument is the unescaped text before it; what follows that quote is
\* read outside the string; with no such quote the string never ends.
EscapeInQuote(body, r) ==
  LET full == Append(body, "\"")
      close == FirstUnescaped(full, "\"")
  IN  IF close = 0 THEN r.error = Unterminated
      ELSE IF close = Len(full)
      THEN r = [error |-> NoError,
                result |-> <<[kind |-> "var", identifier |-> <<"f">>,
                              args |-> <<TextPart(Unescape(body))>>]>>]
      ELSE r.error = UnexpectedChar(close + 4)

\* The escape flag is set by a backslash only, in literal text or in a
\* quoted string, and the next character of the input clears it.
EscapeConsumed(t) ==
  \A n \in 1..Len(t) :
    LET st == ReadFrom(ParseInit, SubSeq(t, 1, n), 1) IN
      (st.error = NoError /\ st.escapeNext) =>
        /\ t[n] = "\\"
        /\ st.inVar => st.open # <<>> /\ st.open[Len(st.open)].inQuote
        /\ n < Len(t) =>
             LET next == ReadFrom(ParseInit, SubSeq(t, 1, n + 1), 1)
             IN  /\ next.error = NoError
                 /\ ~next.escapeNext
                 /\ next.inVar = st.inVar
                 /\ IF st.inVar
                    THEN next.open[Len(next.open)].currentArg =
                           Append(st.open[Len(st.open)].currentArg, t[n + 1])
                    ELSE next.currentString = Append(st.currentString, t[n + 1])

\* C18: a backslash makes the following character part of the text
\* fragment, or of the quoted string, literally: an escaped "{" never opens
\* an expression, an escaped quote never ends the string and only an
\* unescaped one does; the escape flag is consumed by the very next
\* character of the same state and never reaches identifier or argument
\* parsing.
C18_Escapes ==
  probe.op = "parseTemplate, escapes" =>
    /\ probe.args[1] = "text" => EscapeInText(probe.args[2], probe.result)
    /\ probe.args[1] = "quote" => EscapeInQuote(probe.args[2], probe.result)
    /\ EscapeConsumed(probe.args[3])

\* A quoted string with an escaped quote and an escaped backslash in it has
\* been parsed into the argument that holds both characters.
C18_Witness ==
  /\ probe.op = "parseTemplate, escapes"
  /\ probe.args[1] = "quote"
  /\ probe.args[2] = <<"\\", "\"", "\\", "\\">>
  /\ probe.result.error = NoError
  /\ probe.result.result[1].args = <<TextPart(<<"\"", "\\">>)>>

(***************************************************************************)
(* Claims about the built-in functions (under SpecBuiltin)                 *)
(***************************************************************************)

\* C19: every built-in function is total: called with any list of safe
\* values as arguments (any number of them, absent or of the wrong type,
\* such as a first argument of concatArr that is not a sequence) it returns
\* a value and never raises.
C19_BuiltinsTotal ==
  (probe.op = "baseValues" /\ \A k \in 1..Len(probe.args) : isTemplateSafeValue(probe.args[k]))
    => ~probe.threw

\* The remainder of the division that truncates towards zero.
TruncatedRemainder(a, n) ==
  CHOOSE r \in (0 - n)..n :
    \E q \in (0 - (MaxPosition + 2))..(MaxPosition + 2) :
      /\ a = q * n + r
      /\ IF a >= 0 THEN r \in 0..(n - 1) ELSE r \in (1 - n)..0

\* The value cases is to give for the integer position p among the values.
CaseAt(p, values) ==
  LET idx == TruncatedRemainder(p - 1, Len(values))
  IN  values[(IF idx > 0 THEN idx ELSE 0) + 1]

\* The call is cases(position, ...values) with an integer position.
IsCasesCall ==
  /\ probe.op = "baseValues"
  /\ probe.name = <<"c", "a", "s", "e", "s">>
  /\ probe.args # <<>>
  /\ probe.args[1].kind = "num"

\* C20: cases(position, ...values) is 1-indexed with wrap-around: with no
\* values it returns the empty string; with n >= 1 values and an integer
\* position p (zero, negative or larger than n included) it returns the
\* value at the 0-based index max(0, (p-1) rem n), so the p-th value for
\* 1 <= p <= n and the first for p = n + 1.
C20_Cases ==
  (probe.op = "baseValues" /\ probe.name = <<"c", "a", "s", "e", "s">> /\ ~probe.threw) =>
    LET values == IF probe.args = <<>> THEN <<>> ELSE Tail(probe.args)
    IN  /\ values = <<>> => probe.result = Str(<<>>)
        /\ (IsCasesCall /\ values # <<>>) =>
             LET p == probe.args[1].n IN
               /\ probe.result = CaseAt(p, values)
               /\ \E k \in 1..Len(values) : probe.result = values[k]
               /\ p \in 1..Len(values) => probe.result = values[p]
               /\ p = Len(values) + 1 => probe.result = values[1]

\* cases has been called with a position beyond the last of three values,
\* and has wrapped around to the second.
C20_Witness ==
  /\ IsCasesCall
  /\ Len(probe.args) = 4
  /\ probe.args[1].n = 5
  /\ probe.result = probe.args[3]

(***************************************************************************)
(* Claims about the arithmetic reducers (under SpecArith)                  *)
(***************************************************************************)

\* The argument parses as a number.
ParsesAsNumber(v) == ParseFloatValue(v).class # "nan"

NumericOnly(args) == SelectSeq(args, ParsesAsNumber)

RECURSIVE FoldNumbers(_, _, _)
\* The left-to-right fold of the operation over numbers; a zero divisor of
\* div leaves the result as it is.
FoldNumbers(name, acc, nums) ==
  IF nums = <<>> THEN acc
  ELSE LET x == Head(nums)
           next == CASE name = <<"a", "d", "d">> -> Plus(acc, x)
                     [] name = <<"s", "u", "b">> -> Minus(acc, x)
                     [] name = <<"m", "u", "l">> -> Times(acc, x)
                     [] name = <<"d", "i", "v">> -> IF x = Finite(0) THEN acc ELSE Over(acc, x)
       IN  FoldNumbers(name, next, Tail(nums))

\* The fold over the numeric arguments alone: add starts from 0, the others
\* from the first numeric argument, and are 0 when there is none.
FoldOfNumeric(name, args) ==
  LET nums == [k \in 1..Len(NumericOnly(args)) |-> ParseFloatValue(NumericOnly(args)[k])]
  IN  IF name = <<"a", "d", "d">> THEN FoldNumbers(name, Finite(0), nums)
      ELSE IF nums = <<>> THEN Finite(0)
      ELSE FoldNumbers(name, Head(nums), Tail(nums))

\* C21: add, sub, mul and div fold left to right over their arguments and
\* skip every argument that does not parse as a number, in every position
\* including the first: the result is the number of the fold over the
\* numeric arguments alone.
C21_FoldOfNumericArguments ==
  (probe.op = "baseValues" /\ probe.name \in ArithNames)
    => ValueToNumber(probe.result) = FoldOfNumeric(probe.name, probe.args)

IsDivCall == probe.op = "baseValues" /\ probe.name = <<"d", "i", "v">>

\* C22: div never divides by zero: a divisor (an argument after the first)
\* whose number is 0 leaves the running result as it was before it, no
\* result is an infinity (no argument of the universe is one), and div with
\* no arguments is 0.
C22_NoDivisionByZero ==
  IsDivCall =>
    /\ probe.args = <<>> => probe.result = Num(0)
    /\ \A k \in 2..Len(probe.args) :
         ParseFloatValue(probe.args[k]) = Finite(0)
           => div(SubSeq(probe.args, 1, k)) = div(SubSeq(probe.args, 1, k - 1))
    /\ ValueToNumber(probe.result).class # "infinite"

\* div(2, 0, 2) has been called: the zero is passed over and the result is 1.
C22_Witness ==
  /\ IsDivCall
  /\ probe.args = <<Num(2), Num(0), Num(2)>>
  /\ probe.result = Num(1)

(***************************************************************************)
(* Termination (under SpecLoop)                                            *)
(***************************************************************************)

\* The call has been started and has not settled.
Unsettled(c) == c.pc \notin {"idle", "done", "failed"}

\* The loop of the parser takes the characters of the template in their
\* order, each in one turn: a step of the parser either reads the next
\* character, or leaves the loop when every character has been read.
C23_OneTurnPerCharacter ==
  [][call[1].pc = "parseLoop"
       => \/ /\ Len(input) < Len(call[1].template)
             /\ input' = Append(input, call[1].template[Len(input) + 1])
          \/ /\ Len(input) = Len(call[1].template)
             /\ input' = input
             /\ call'[1].pc # "parseLoop"]_vars

\* A call that has been started settles: its promise is fulfilled or rejected.
C23_Settles == Unsettled(call[1]) ~> ~Unsettled(call[1])

\* C23: parsing a template finishes, with a result or a parse error, after
\* one turn of the loop for each character, and rendering the result
\* finishes when every callable returns: no call runs forever.
C23_Termination == C23_OneTurnPerCharacter /\ C23_Settles

\* The template with the nested calls has been read to its end and
\* rendered, its four callables invoked.
C23_Witness ==
  /\ call[1].pc = "done"
  /\ ~call[1].hit
  /\ input = call[1].template
  /\ Len(call[1].trace) = 4

(***************************************************************************)
(* The depth of validation (under SpecDepth)                               *)
(***************************************************************************)

\* The depth past which validation is to fail: the specification gives 100
\* as an example; the nesting of the model is compared with a smaller one.
SpecifiedDepthGuard == 3

RECURSIVE DepthOfArrays(_)
\* The levels of arrays the validation descends through: it does not look
\* into a container.
DepthOfArrays(v) ==
  IF v.kind # "arr" \/ v.items = <<>> THEN 0
  ELSE 1 + DepthOfArrays(CHOOSE x \in {v.items[k] : k \in 1..Len(v.items)} :
                           \A k \in 1..Len(v.items) : DepthOfArrays(x) >= DepthOfArrays(v.items[k]))

\* C24: validation is depth-guarded: a value nested deeper than the guard
\* is reported unsafe, whatever it holds.
C24_DepthGuarded ==
  (probe.op = "isTemplateSafeValue" /\ DepthOfArrays(probe.args[1]) > SpecifiedDepthGuard)
    => probe.result = Bool(FALSE)

(***************************************************************************)
(* Claims about argument lists (under SpecCalls)                           *)
(***************************************************************************)

\* The parser is about to read a character of the template.
AtTurn == call[1].pc = "parseLoop" /\ Len(input) < Len(call[1].template)

\* The character of that turn.
TurnChar == call[1].template[Len(input) + 1]

\* The node being read is a bare variable given as an argument: it has a
\* parent and has met no "(".
ReadingBareArgument(st) ==
  /\ st.inVar
  /\ Len(st.open) >= 2
  /\ ~st.open[Len(st.open)].inArg

Node(identifier, args) == [kind |-> "var", identifier |-> identifier, args |-> args]

\* A "," read in a bare-variable argument closes the variable alone and
\* appends it to the enclosing call; a ")" closes the enclosing call too,
\* which then holds the variable as its last argument and is appended to
\* the arguments of its own parent (or is the finished root).
C25_ClosingStep ==
  [][(AtTurn /\ ReadingBareArgument(parser.st) /\ TurnChar \in {",", ")"})
       => LET open == parser.st.open
              after == parser'.st
              n == Len(open)
              variable == Node(open[n].identifier, cleanUpParseResult(open[n].args))
              closed == Node(open[n - 1].identifier,
                             Append(cleanUpParseResult(open[n - 1].args), variable))
          IN  /\ after.error = NoError
              /\ TurnChar = ","
                   => /\ Len(after.open) = n - 1
                      /\ SubSeq(after.open, 1, n - 2) = SubSeq(open, 1, n - 2)
                      /\ after.open[n - 1].identifier = open[n - 1].identifier
                      /\ cleanUpParseResult(after.open[n - 1].args)
                           = Append(cleanUpParseResult(open[n - 1].args), variable)
              /\ TurnChar = ")"
                   => /\ Len(after.open) = n - 2
                      /\ SubSeq(after.open, 1, n - 3) = SubSeq(open, 1, n - 3)
                      /\ IF n = 2 THEN cleanUpParseResult(<<after.root>>) = <<closed>>
                         ELSE /\ after.open[n - 2].identifier = open[n - 2].identifier
                              /\ cleanUpParseResult(after.open[n - 2].args)
                                   = Append(cleanUpParseResult(open[n - 2].args), closed)]_vars

\* "{a(x,a)}" is a with the arguments x and a; "{a(x(a))}" is a with the
\* one argument x, which has the one argument a.
C25_Examples ==
  /\ (call[1].pc = "evict" /\ call[1].template = CallTemplate(<<"x", ",", "a">>))
       => call[1].parseResult = <<Node(<<"a">>, <<Node(<<"x">>, <<>>), Node(<<"a">>, <<>>)>>)>>
  /\ (call[1].pc = "evict" /\ call[1].template = CallTemplate(<<"x", "(", "a", ")">>))
       => call[1].parseResult = <<Node(<<"a">>, <<Node(<<"x">>, <<Node(<<"a">>, <<>>)>>)>>)>>

\* C25: nested calls parse into the tree given by their parentheses: in a
\* bare-variable argument a ")" closes the variable and the enclosing
\* call, a "," the variable alone.
C25_NestedCalls == C25_ClosingStep /\ []C25_Examples

\* "{a( x(x))}" has been parsed: the ")" after the bare variable x closed
\* it and the call of x, which is the argument of a.
C25_Witness ==
  /\ call[1].pc = "evict"
  /\ call[1].template = CallTemplate(<<" ", "x", "(", "x", ")">>)
  /\ call[1].parseResult = <<Node(<<"a">>, <<Node(<<"x">>, <<Node(<<"x">>, <<>>)>>)>>)>>

(***************************************************************************)
(* The end of an expression (under SpecParse)                              *)
(***************************************************************************)

\* The expression nodes among the parts of a result.
ExpressionNodes(result) == SelectSeq(result, LAMBDA part : part.kind = "var")

\* The "}" is read in identifier position: inside an expression, by a node
\* that has met no "(", or after the root has been closed.
InIdentifierPosition(st) ==
  st.inVar /\ (st.open = <<>> \/ ~st.open[Len(st.open)].inArg)

\* The outermost node of the expression being read.
RootNode(st) == IF st.open = <<>> THEN st.root ELSE Held(st.open[1], "null")

\* C26: a "}" in identifier position closes the expression only when the
\* node being read is its outermost node: the root is then appended to the
\* result, once, and the parser is back in literal text; with a nested
\* node still open the parse fails with "Unclosed function!".  No other
\* step adds an expression node, so every parsed expression gives exactly
\* one node, in the order of the input.
C26_ClosingBrace ==
  [][parser.phase = "reading"
       => LET st == parser.st
              after == parser'.st
              closing == /\ input' # input
                         /\ input'[Len(input')] = "}"
                         /\ InIdentifierPosition(st)
          IN  /\ (closing /\ Len(st.open) >= 2)
                   => after.error = UnclosedFunction /\ after.result = st.result
              /\ (closing /\ Len(st.open) <= 1)
                   => /\ after.error = NoError
                      /\ after.result = Append(st.result, RootNode(st))
                      /\ ~after.inVar
              /\ ~closing => cleanUpParseResult(ExpressionNodes(after.result))
                               = cleanUpParseResult(ExpressionNodes(st.result))]_vars

\* "{a}a" has been parsed: the "}" appended the node a, and the text follows.
C26_Witness ==
  /\ parser.phase = "parsed"
  /\ input = <<"{", "a", "}", "a">>
  /\ parser.st.result = <<Node(<<"a">>, <<>>), TextPart(<<"a">>)>>

\* The parser is reading the argument list of the current node, outside a quote.
InArguments(st) ==
  /\ st.inVar
  /\ st.open # <<>>
  /\ st.open[Len(st.open)].inArg
  /\ ~st.open[Len(st.open)].inQuote

RECURSIVE LastVisible(_)
\* The last character of the text that is no whitespace ("" when there is none).
LastVisible(text) ==
  IF text = <<>> THEN ""
  ELSE IF IsWhitespace(text[Len(text)]) THEN LastVisible(SubSeq(text, 1, Len(text) - 1))
  ELSE text[Len(text)]

\* The kind the pending argument has been committed to: a number being
\* read, a quoted string that has been closed, a nested expression that has
\* been closed (the last character read, whitespace aside, is its ")"), or
\* none yet.
CommittedKind(st, read) ==
  LET cur == st.open[Len(st.open)]
  IN  IF cur.currentArgType = "number" THEN "number"
      ELSE IF cur.currentArgType = "string" THEN "string"
      ELSE IF LastVisible(read) = ")" THEN "expression"
      ELSE "none"

\* The character cannot go on an argument of that kind: after a string or an
\* expression everything but whitespace, in a number everything but a
\* digit and whitespace.
Incompatible(kind, char) ==
  /\ kind # "none"
  /\ ~IsWhitespace(char)
  /\ kind = "number" => ~IsDigit(char)

\* C27: an argument has one kind: once it is committed as a number, a
\* quoted string or a nested expression, a character before the next ","
\* or ")" that is incompatible with the kind makes the parse fail with
\* "Unexpected char" at the position of that character.
C27_OneKind ==
  [][(/\ AtTurn
      /\ InArguments(parser.st)
      /\ TurnChar \notin {",", ")"}
      /\ Incompatible(CommittedKind(parser.st, input), TurnChar))
       => parser'.st.error = UnexpectedChar(Len(input))]_vars

\* The commas of a text.
Commas(text) == Len(SelectSeq(text, LAMBDA char : char = ","))

RECURSIVE SeparatorsNeeded(_)
\* The commas that the argument lists of the nodes of a result take when
\* every two neighbouring arguments are separated by one.
SeparatorsNeeded(parts) ==
  IF parts = <<>> THEN 0
  ELSE (IF Head(parts).kind # "var" THEN 0
        ELSE (IF Len(Head(parts).args) > 1 THEN Len(Head(parts).args) - 1 ELSE 0)
             + SeparatorsNeeded(Head(parts).args))
       + SeparatorsNeeded(Tail(parts))

\* C30: a new argument begins only after "(" or after ",": a parsed
\* template holds no two arguments that the input does not separate by a
\* comma, so its argument lists need no more commas than the input has.
C30_CommaSeparated ==
  call[1].pc = "evict" => SeparatorsNeeded(call[1].parseResult) <= Commas(call[1].template)

(***************************************************************************)
(* Functions below the top level of the values (under SpecPath)            *)
(***************************************************************************)

\* The identifier of the node is a path to a function that is no property
\* of values itself.
NamesNestedFunction(node, values) ==
  /\ get(values, node.identifier).kind = "fn"
  /\ node.identifier \notin DOMAIN values

\* A node that names a nested function returns the empty string from the
\* head of its evaluation: no argument is evaluated and nothing is invoked.
C28_NestedStep ==
  [][(call[1].pc = "evaluate" /\ NamesNestedFunction(Top(call[1]).node, call[1].values))
       => /\ call'[1].ret = Str(<<>>)
          /\ call'[1].frames = SubSeq(call[1].frames, 1, Len(call[1].frames) - 1)
          /\ call'[1].trace = call[1].trace]_vars

\* Every callable invoked was named by a key of values, and no activation
\* evaluates arguments for a nested function.
C28_OnlyTopLevel ==
  /\ \A k \in 1..Len(call[1].trace) : call[1].trace[k] \in DOMAIN call[1].values
  /\ \A k \in 1..Len(call[1].frames) :
       NamesNestedFunction(call[1].frames[k].node, call[1].values)
         => /\ call[1].frames[k].argIdx = 1
            /\ call[1].frames[k].args = <<>>
            /\ ~call[1].frames[k].invoked
            /\ k = Len(call[1].frames)

\* C28: a callable is invoked only when the identifier of the node is a
\* top-level key of the values: a node whose path leads to a callable
\* inside a container or an array renders as the empty string, the
\* callable is not invoked and no argument of the node is evaluated.
C28_NestedCallable == C28_NestedStep /\ []C28_OnlyTopLevel

\* "{o.f(nil())}x" has been rendered as "x", and nothing was invoked.
C28_Witness ==
  /\ call[1].pc = "done"
  /\ call[1].template = <<"{", "o", ".", "f", "(", "n", "i", "l", "(", ")", ")", "}", "x">>
  /\ call[1].outcome.output = <<"x">>
  /\ call[1].trace = <<>>

(***************************************************************************)
(* The start-thread action (under SpecThread)                              *)
(***************************************************************************)

\* C29: the start-thread action creates a thread only for contexts that
\* pass its checks: none for a context without a message or a user, in a
\* channel that is no text channel, or in a channel that holds
\* limit_per_channel or more active threads of the bot.
C29_OnlyCheckedContexts ==
  probe.op = "StartThreadAction.apply"
    => \A k \in 1..Len(probe.result) :
         PassesChecks(probe.result[k], probe.args[2], probe.args[3])

(***************************************************************************)
(* C31: arguments are evaluated only for callables                         *)
(***************************************************************************)

\* What the identifier of the node under evaluation resolves to (line 346).
Resolved(c) ==
  IF has(c.values, Top(c).node.identifier) THEN get(c.values, Top(c).node.identifier) ELSE Null

\* The template {n(obj())}: n is a string of the host, obj a function.
NonCallableHead == <<"{", "n", "(", "o", "b", "j", "(", ")", ")", "}">>

\* C31: when the identifier of a node resolves to a value that is not a
\* function, or to nothing, the evaluation of the node returns in that very
\* step: no argument is evaluated (no frame is pushed), no function is
\* invoked (the trace of invocations is unchanged), and the value returned
\* is the resolved value, the empty string standing for nothing.
C31_ArgumentsOnlyForCallables ==
  [][\A p \in Calls :
       (call[p].pc = "evaluate" /\ call'[p] # call[p] /\ Resolved(call[p]).kind # "fn")
         => /\ call'[p].trace = call[p].trace
            /\ call'[p].frames = SubSeq(call[p].frames, 1, Len(call[p].frames) - 1)
            /\ call'[p].pc \in {"awaitArg", "awaitPart"}
            /\ call'[p].ret = IF Resolved(call[p]) = Null THEN Str(<<>>)
                               ELSE Resolved(call[p])]_vars

\* {n(obj())} rendered with the values of the host: the output is the string
\* n and obj was never invoked.
C31_Witness ==
  \E p \in Calls :
    /\ call[p].pc = "done"
    /\ call[p].template = NonCallableHead
    /\ call[p].given = HostValues
    /\ call[p].trace = <<>>
    /\ call[p].outcome.output = HostValues[<<"n">>].s

(***************************************************************************)
(* C32: failed renders and the template cache                              *)
(***************************************************************************)

\* The call was rejected by an error of the parser.
FailedInParse(c) == c.pc = "failed" /\ c.outcome.parseError # NoError

\* The call was rejected by an error of the evaluation.
FailedInEvaluation(c) == c.pc = "failed" /\ c.outcome.evalError # NoEvalError

\* No template that fails to parse is a key of the cache.
C32_NothingInserted ==
  \A t \in MapKeys(templateCache) : parseTemplate(t).error = NoError

\* The step that parses a template with a syntax error rejects the call and
\* leaves the cache as it was: nothing set, nothing deleted.
C32_ParseFailure ==
  [][\A p \in Calls :
       (call[p].pc = "parse" /\ call'[p] # call[p]
          /\ parseTemplate(call[p].template).error # NoError)
         => /\ FailedInParse(call'[p])
            /\ templateCache' = templateCache]_vars

\* The step in which a render fails during evaluation leaves the cache as it was.
C32_EvaluationFailure ==
  [][\A p \in Calls :
       (~FailedInEvaluation(call[p]) /\ FailedInEvaluation(call'[p]))
         => templateCache' = templateCache]_vars

\* C32: a template whose parse fails leaves the template cache unchanged,
\* nothing is inserted for it and nothing is evicted, even when the cache is
\* at capacity; and a render that fails later, during evaluation, leaves
\* the entry that was inserted for it in place.
C32_FailuresKeepCache ==
  /\ []C32_NothingInserted
  /\ C32_ParseFailure
  /\ C32_EvaluationFailure

\* The cache is at capacity, one call has failed in the parser and its
\* template is no key of the cache, another has failed in evaluation and
\* its template is still a key of the cache.
C32_Witness ==
  /\ MapSize(templateCache) = TEMPLATE_CACHE_SIZE
  /\ \E p \in Calls :
       FailedInParse(call[p]) /\ call[p].template \notin MapKeys(templateCache)
  /\ \E q \in Calls :
       /\ FailedInEvaluation(call[q])
       /\ ~call[q].hit
       /\ call[q].template \in MapKeys(templateCache)

(***************************************************************************)
(* C33: the normal form of a parsed template (under SpecFragments)         *)
(***************************************************************************)

\* No literal fragment of the parts is empty.
NoEmptyFragment(parts) ==
  \A k \in 1..Len(parts) : parts[k].kind = "text" => parts[k].text # <<>>

\* No literal fragment of the parts is followed by another.
NoAdjacentFragments(parts) ==
  \A k \in 1..(Len(parts) - 1) : ~(parts[k].kind = "text" /\ parts[k + 1].kind = "text")

RECURSIVE NoBookkeeping(_)
\* Every node among the items, and every node below it, has its identifier
\* and its args and nothing else: neither _state nor _parent.
NoBookkeeping(items) ==
  \A k \in 1..Len(items) :
    items[k].kind = "var"
      => /\ DOMAIN items[k] = {"kind", "identifier", "args"}
         /\ NoBookkeeping(items[k].args)

RECURSIVE Depth(_)
\* The depth of the deepest node among the items.
Depth(items) ==
  IF items = <<>> THEN 0
  ELSE Max(IF Head(items).kind = "var" THEN 1 + Depth(Head(items).args) ELSE 0,
           Depth(Tail(items)))

\* C33: every parsed template that parseTemplate returns is in normal form:
\* no literal fragment is empty, no two literal fragments are adjacent, and
\* no expression node, at any depth, still has the fields _state and _parent
\* of the parser.
C33_NormalForm ==
  call[1].pc = "evict"
    => /\ NoEmptyFragment(call[1].parseResult)
       /\ NoAdjacentFragments(call[1].parseResult)
       /\ NoBookkeeping(call[1].parseResult)

\* A template has been parsed into text, an expression with nodes three
\* deep, and text.
C33_Witness ==
  /\ call[1].pc = "evict"
  /\ Len(call[1].parseResult) = 3
  /\ call[1].parseResult[1].kind = "text"
  /\ call[1].parseResult[2].kind = "var"
  /\ call[1].parseResult[3].kind = "text"
  /\ Depth(<<call[1].parseResult[2]>>) = 3

(***************************************************************************)
(* C34: the cooldown of a log destination (under SpecLog)                  *)
(***************************************************************************)

\* A send to a destination that fails with 50001 or 50013 starts a cooldown
\* of two minutes for that destination.
C34_CooldownStarts ==
  [][\A d \in Destinations, err \in SendErrors :
       (SendError(d, err) /\ IsAccessError(err)) => logs'.cooldowns[d] = Cooldown]_vars

\* While the cooldown of a destination lasts, no message is pushed to its buffer.
C34_NoPushOnCooldown ==
  [][\A d \in Destinations :
       logs.cooldowns[d] > 0 => logs'.buffers[d].pending <= logs.buffers[d].pending]_vars

\* C34: after a send to a destination (a log channel, or the category
\* thread a log was routed to) fails with Discord error 50001 or 50013, the
\* destination is on cooldown for two minutes, and while the cooldown lasts
\* log() pushes no further message to the buffer of that destination.
C34_DestinationCooldown == C34_CooldownStarts /\ C34_NoPushOnCooldown

=============================================================================
